---- MODULE Spec2Model ----
(***************************************************************************)
(* State-machine model of ProcImap.ImapMailbox.ImapMailbox: one mailbox    *)
(* object bound to one IMAP session, driven by a single client.            *)
(*                                                                         *)
(* Every handler of the class is an operator on a context record s that    *)
(* holds the server side (folders, messages, flags), the session (selected *)
(* folder), the object's fields (name, _cached_uid, _cached_text, trash)   *)
(* and the bookkeeping of the call in progress: the requests issued so far *)
(* (reqs), the position of the request the server answers with NO (fail),  *)
(* the exception raised (exc) and the value returned (rkind, rtext, ...).  *)
(* An action runs one public method to completion on the current state.    *)
(* A copy or move to an ImapMailbox on another server runs the add and the *)
(* flush of that mailbox on the folders of its server (remote).            *)
(***************************************************************************)
EXTENDS Integers, Sequences, FiniteSets, TLC

VARIABLES
    msgs,          \* server: folder name -> (UID -> [text, flags])
    uidnext,       \* server: folder name -> next UID the folder assigns
    exists,        \* server: the folder names that exist
    selected,      \* session: the selected folder, NoFolder when none is
    name,          \* self.name
    cached_uid,    \* self._cached_uid
    cached_text,   \* self._cached_text
    trash,         \* self.trash
    sink,          \* texts delivered to a mailbox that is no ImapMailbox
    remote,        \* the server of an ImapMailbox target on another server:
                   \* its folders (msgs) and their next UIDs (uidnext)
    locked,        \* whether the foreign mailbox.Mailbox target is left locked
    gen            \* the generator of itervalues/iteritems the client holds

vars == <<msgs, uidnext, exists, selected, name, cached_uid, cached_text,
          trash, sink, remote, locked, gen>>

-----------------------------------------------------------------------------
(* Bounds *)

\* Number of messages appended or copied, on the server, on the other
\* server or into a foreign mailbox, after Init.
MaxNew == 1

-----------------------------------------------------------------------------
(* Values *)

NoUid == 0                  \* Python None in self._cached_uid
None == "None"              \* Python None where a string is expected
NoFolder == ""              \* the session has no folder selected
NonStr == "<not a str>"     \* a folder name argument that is no string

FolderNames == {"INBOX", "Trash"}
Texts == {"a", "b", "c"}          \* message texts; "c" is the text appended by add
Deleted == "\\Deleted"
Seen == "\\Seen"
FlagNames == {Deleted, Seen}
\* The UIDs a call is made with: present, expunged and never assigned ones.
Uids == 1..(2 + MaxNew)

\* The ways a copy/move target (and self.trash) can be given.
Str(f) == [kind |-> "str", name |-> f, same |-> FALSE]
Imap(f, same) == [kind |-> "imap", name |-> f, same |-> same]
Foreign == [kind |-> "foreign", name |-> "", same |-> FALSE]
Invalid == [kind |-> "invalid", name |-> "", same |-> FALSE]
NoTrash == [kind |-> "none", name |-> "", same |-> FALSE]

\* A generator of itervalues ("values") or iteritems ("items"): not yet
\* started ("new"), suspended at its yield with the UIDs still to visit
\* ("running"), or finished ("done"). NoGen: the client holds none.
Gen(kind, phase, uids) == [kind |-> kind, phase |-> phase, uids |-> uids]
NoGen == Gen("none", "done", <<>>)

Targets == {Str(f) : f \in FolderNames}
           \cup {Imap(f, TRUE) : f \in FolderNames}
           \cup {Foreign, Invalid}

\* ImapMailbox targets on another server.
Elsewhere == {Imap(f, FALSE) : f \in FolderNames}

TrashChoices == {NoTrash} \cup {Str(f) : f \in FolderNames}

RECURSIVE SortedSeq(_)
SortedSeq(S) ==
    IF S = {} THEN <<>>
    ELSE LET m == CHOOSE x \in S : \A y \in S : x <= y
         IN <<m>> \o SortedSeq(S \ {m})

Range(q) == {q[i] : i \in DOMAIN q}

Count(q, r) == Cardinality({i \in DOMAIN q : q[i] = r})

-----------------------------------------------------------------------------
(* The call in progress *)

Ok(s) == s.exc = ""

\* A local variable of a handler: v is computed once and F is the rest of
\* the handler, which names it.
Let(v, F(_)) == F(v)

Raise(s, e) ==
    [s EXCEPT !.exc = e, !.earg = None, !.rkind = "none", !.rtext = None,
              !.rflags = {}, !.rlist = <<>>, !.rint = 0]

\* An exception whose message names the flag a.
RaiseNaming(s, e, a) == [Raise(s, e) EXCEPT !.earg = a]

\* Status the server gives the next request, and the bookkeeping of it.
Code(s) == IF s.fail = 1 THEN "NO" ELSE "OK"

\* Req(s, r, code): request r was issued and answered with code.
Req(s, r, code) ==
    [s EXCEPT !.reqs = Append(@, r),
              !.nos = IF code = "OK" THEN @ ELSE @ \cup {Len(s.reqs) + 1},
              !.fail = IF @ > 0 THEN @ - 1 ELSE 0]

\* Call(s, r): the session was asked for r, which has no status to answer.
Call(s, r) == [s EXCEPT !.reqs = Append(@, r)]

-----------------------------------------------------------------------------
(* The session: ImapServer over imaplib, and the IMAP server behind it *)

\* A UID command on a session without a selected folder is refused by the
\* client library before anything is sent.
Illegal(s) == s.selected = NoFolder

Folder(s) == s.msgs[s.selected]

\* The search keys of the model; any other criteria string is a syntax
\* error, which the server answers with BAD and the client library raises
\* as its own error.
SearchKeys == {"ALL", "UNDELETED"}

\* The tokens of a search response: a decimal number, or anything else.
Tok(n) == [dec |-> TRUE, val |-> n]
Junk == [dec |-> FALSE, val |-> 0]

\* The shapes of the data the session hands back for a search: a first
\* record of text (the UID list when the status is OK), a first record that
\* is None, no record at all, and a text with a token that is no number.
Shapes == {"list", "None", "absent", "junk"}

\* The first record of the data: "text", "None" or "absent".
Rec(s) == IF s.resp \in {"None", "absent"} THEN s.resp ELSE "text"

uid_search(s, criteria) ==
    IF Illegal(s)
    THEN [s |-> Raise(s, "error"), code |-> "", rec |-> "text", data |-> <<>>]
    ELSE IF criteria \notin SearchKeys
         THEN [s |-> Raise(Req(s, "search", "BAD"), "error"), code |-> "",
               rec |-> "text", data |-> <<>>]
    ELSE IF Code(s) # "OK"
         THEN [s |-> Req(s, "search", "NO"), code |-> "NO", rec |-> Rec(s),
               data |-> <<>>]
    ELSE LET all == DOMAIN Folder(s)
             hit == IF criteria = "UNDELETED"
                    THEN {u \in all : Deleted \notin Folder(s)[u].flags}
                    ELSE all
             uids == SortedSeq(hit)
             toks == [i \in DOMAIN uids |-> Tok(uids[i])]
         IN [s |-> Req(s, "search", "OK"), code |-> "OK", rec |-> Rec(s),
             data |-> IF s.resp = "junk" THEN toks \o <<Junk>>
                      ELSE IF s.resp = "list" THEN toks
                      ELSE <<>>]

\* The header part of a message text, which BODY.PEEK[HEADER] returns.
Header(text) ==
    CASE text = "a" -> "header of a"
      [] text = "b" -> "header of b"
      [] OTHER -> "header of c"

\* data is the payload of the first response record, None when the UID is
\* not in the folder (the response is then OK with an empty record).
uid_fetch(s, uid, item) ==
    IF Illegal(s)
    THEN [s |-> Raise(s, "error"), code |-> "", data |-> None, flags |-> {}]
    ELSE IF Code(s) # "OK"
         THEN [s |-> Req(s, item, "NO"), code |-> "NO", data |-> "NO", flags |-> {}]
    ELSE IF uid \notin DOMAIN Folder(s)
         THEN [s |-> Req(s, item, "OK"), code |-> "OK", data |-> None, flags |-> {}]
    ELSE [s |-> Req(s, item, "OK"), code |-> "OK",
          data |-> IF item = "RFC822" THEN Folder(s)[uid].text
                   ELSE IF item = "HEADER" THEN Header(Folder(s)[uid].text)
                   ELSE item,
          flags |-> Folder(s)[uid].flags]

uid_store(s, uid, mode, flags) ==
    IF Illegal(s) THEN [s |-> Raise(s, "error"), code |-> ""]
    ELSE IF Code(s) # "OK" THEN [s |-> Req(s, "store", "NO"), code |-> "NO"]
    ELSE IF uid \notin DOMAIN Folder(s)
         THEN [s |-> Req(s, "store", "OK"), code |-> "OK"]
    ELSE LET old == Folder(s)[uid].flags
             new == CASE mode = "+FLAGS" -> old \cup flags
                      [] mode = "-FLAGS" -> old \ flags
                      [] OTHER -> flags
         IN [s |-> [Req(s, "store", "OK") EXCEPT
                       !.msgs[s.selected][uid].flags = new],
             code |-> "OK"]

\* Server-side copy: the target gets a new message with the next UID of the
\* target folder, the text and the flags of the source message.
uid_copy(s, uid, target) ==
    IF Illegal(s) THEN [s |-> Raise(s, "error"), code |-> ""]
    ELSE IF Code(s) # "OK" \/ target \notin s.exists
         THEN [s |-> Req(s, "copy", "NO"), code |-> "NO"]
    ELSE IF uid \notin DOMAIN Folder(s)
         THEN [s |-> Req(s, "copy", "OK"), code |-> "OK"]
    ELSE LET n == s.uidnext[target]
             m == Folder(s)[uid]
             old == s.msgs[target]
         IN [s |-> [Req(s, "copy", "OK") EXCEPT
                       !.msgs[target] =
                           [u \in DOMAIN old \cup {n} |->
                               IF u = n THEN m ELSE old[u]],
                       !.uidnext[target] = n + 1],
             code |-> "OK"]

server_append(s, folder, flags, text) ==
    IF Code(s) # "OK" \/ folder \notin s.exists
    THEN [s |-> Req(s, "append", "NO"), code |-> "NO"]
    ELSE LET n == s.uidnext[folder]
             old == s.msgs[folder]
         IN [s |-> [Req(s, "append", "OK") EXCEPT
                       !.msgs[folder] =
                           [u \in DOMAIN old \cup {n} |->
                               IF u = n THEN [text |-> text, flags |-> flags]
                               ELSE old[u]],
                       !.uidnext[folder] = n + 1],
             code |-> "OK"]

\* EXPUNGE removes every message of the selected folder flagged \Deleted.
server_expunge(s) ==
    IF Illegal(s) THEN [s |-> Raise(s, "error"), code |-> ""]
    ELSE IF Code(s) # "OK" THEN [s |-> Req(s, "expunge", "NO"), code |-> "NO"]
    ELSE LET old == Folder(s)
             keep == {u \in DOMAIN old : Deleted \notin old[u].flags}
         IN [s |-> [Req(s, "expunge", "OK") EXCEPT
                       !.msgs[s.selected] = [u \in keep |-> old[u]]],
             code |-> "OK"]

\* SELECT of a folder that does not exist fails and leaves none selected.
server_select(s, folder) ==
    IF folder \in s.exists
    THEN [s EXCEPT !.selected = folder]
    ELSE Raise([s EXCEPT !.selected = NoFolder], "NoSuchMailboxError")

server_create(s, folder) ==
    [s EXCEPT !.exists = @ \cup {folder}]

\* reconnect() opens a new connection, on which no folder is selected, and
\* login() authenticates on it.
server_reconnect(s) == Call([s EXCEPT !.selected = NoFolder], "reconnect")

server_login(s) == Call(s, "login")

-----------------------------------------------------------------------------
(* ImapMailbox: searching and reading *)

\* search(criteria): the UID list of the selected folder, as integers.
search(s, criteria) ==
    LET r == uid_search(s, criteria)
    IN IF ~Ok(r.s) THEN r.s
       ELSE IF r.rec = "absent" THEN Raise(r.s, "IndexError")
       ELSE IF r.rec = "None" THEN Raise(r.s, "AttributeError")
       ELSE IF r.code # "OK" THEN Raise(r.s, "ImapNotOkError")
       ELSE IF \E i \in DOMAIN r.data : ~r.data[i].dec
       THEN RaiseNaming(r.s, "ImapNotOkError", "unparsable")
       ELSE [r.s EXCEPT !.rkind = "list",
                        !.rlist = [i \in DOMAIN r.data |-> r.data[i].val]]

get_all_uids(s) == search(s, "UNDELETED")

\* _cache_message without the comparison with the cached UID: every read
\* fetches.
_cache_message_always_fetches(s, uid) ==
    LET r == uid_fetch(s, uid, "RFC822")
    IN IF ~Ok(r.s) THEN r.s
       ELSE IF r.code # "OK" THEN Raise(r.s, "ImapNotOkError")
       ELSE IF r.data = None THEN Raise(r.s, "KeyError")
       ELSE [r.s EXCEPT !.cached_uid = uid, !.cached_text = r.data,
                        !.rkind = "text", !.rtext = r.data]

\* _cache_message that stores the UID in the slot before it looks at the
\* answer of the fetch.
_cache_message_sets_uid_first(s, uid) ==
    IF s.cached_uid # uid
    THEN LET r == uid_fetch([s EXCEPT !.cached_uid = uid], uid, "RFC822")
         IN IF ~Ok(r.s) THEN r.s
            ELSE IF r.code # "OK" THEN Raise(r.s, "ImapNotOkError")
            ELSE IF r.data = None THEN Raise(r.s, "KeyError")
            ELSE [r.s EXCEPT !.cached_text = r.data,
                             !.rkind = "text", !.rtext = r.data]
    ELSE [s EXCEPT !.rkind = "text", !.rtext = s.cached_text]

\* _cache_message(uid): the RFC822 text of uid through the one-slot cache.
_cache_message(s, uid) ==
    IF s.cached_uid # uid
    THEN LET r == uid_fetch(s, uid, "RFC822")
         IN IF ~Ok(r.s) THEN r.s
            ELSE IF r.code # "OK" THEN Raise(r.s, "ImapNotOkError")
            ELSE IF r.data = None THEN Raise(r.s, "KeyError")
            ELSE [r.s EXCEPT !.cached_uid = uid, !.cached_text = r.data,
                             !.rkind = "text", !.rtext = r.data]
    ELSE [s EXCEPT !.rkind = "text", !.rtext = s.cached_text]

\* get_imapflags(uid): parsing the flags of an empty record raises a
\* TypeError, which the handler turns into a ValueError.
get_imapflags(s, uid) ==
    LET r == uid_fetch(s, uid, "FLAGS")
    IN IF ~Ok(r.s) THEN r.s
       ELSE IF r.code # "OK" THEN Raise(r.s, "ImapNotOkError")
       ELSE IF r.data = None THEN Raise(r.s, "ValueError")
       ELSE [r.s EXCEPT !.rkind = "flags", !.rflags = r.flags]

get_internaldate(s, uid) ==
    LET r == uid_fetch(s, uid, "INTERNALDATE")
    IN IF ~Ok(r.s) THEN r.s
       ELSE IF r.code # "OK" THEN Raise(r.s, "ImapNotOkError")
       ELSE IF r.data = None THEN Raise(r.s, "NoSuchUIDError")
       ELSE r.s

get_size(s, uid) ==
    LET r == uid_fetch(s, uid, "SIZE")
    IN IF ~Ok(r.s) THEN r.s
       ELSE IF r.code # "OK" THEN Raise(r.s, "ImapNotOkError")
       ELSE IF r.data = None THEN Raise(r.s, "NoSuchUIDError")
       ELSE r.s

\* get_message that leaves the flags of the message it builds empty instead
\* of asking the session for them.
get_message_without_flags(s, uid) ==
    Let(_cache_message(s, uid), LAMBDA a :
    IF ~Ok(a) THEN a ELSE
    Let(get_internaldate(a, uid), LAMBDA c :
    IF ~Ok(c) THEN c ELSE
    Let(get_size(c, uid), LAMBDA d :
    IF ~Ok(d) THEN d
    ELSE [d EXCEPT !.rkind = "msg", !.rtext = a.rtext, !.rflags = {}])))

\* get_message(uid): text through the cache, then flags, date and size.
get_message(s, uid) ==
    Let(_cache_message(s, uid), LAMBDA a :
    IF ~Ok(a) THEN a ELSE
    Let(get_imapflags(a, uid), LAMBDA b :
    IF ~Ok(b) THEN b ELSE
    Let(get_internaldate(b, uid), LAMBDA c :
    IF ~Ok(c) THEN c ELSE
    Let(get_size(c, uid), LAMBDA d :
    IF ~Ok(d) THEN d
    ELSE [d EXCEPT !.rkind = "msg", !.rtext = a.rtext,
                   !.rflags = b.rflags]))))

getitem(s, uid) == get_message(s, uid)

\* get_header that takes the text from the cache slot and returns its header.
get_header_through_cache(s, uid) ==
    Let(_cache_message(s, uid), LAMBDA a :
    IF ~Ok(a) THEN a ELSE
    Let(get_imapflags(a, uid), LAMBDA b :
    IF ~Ok(b) THEN b ELSE
    Let(get_internaldate(b, uid), LAMBDA c :
    IF ~Ok(c) THEN c ELSE
    Let(get_size(c, uid), LAMBDA d :
    IF ~Ok(d) THEN d
    ELSE [d EXCEPT !.rkind = "msg", !.rtext = Header(a.rtext),
                   !.rflags = b.rflags]))))

\* The header-only fetch of get_header: no cache slot is read or written.
fetch_header(s, uid) ==
    LET r == uid_fetch(s, uid, "HEADER")
    IN IF ~Ok(r.s) THEN r.s
       ELSE IF r.code # "OK" THEN Raise(r.s, "ImapNotOkError")
       ELSE IF r.data = None THEN Raise(r.s, "KeyError")
       ELSE [r.s EXCEPT !.rkind = "text", !.rtext = r.data]

\* get_header(uid): the header through its own fetch, then flags, date and
\* size.
get_header(s, uid) ==
    Let(fetch_header(s, uid), LAMBDA a :
    IF ~Ok(a) THEN a ELSE
    Let(get_imapflags(a, uid), LAMBDA b :
    IF ~Ok(b) THEN b ELSE
    Let(get_internaldate(b, uid), LAMBDA c :
    IF ~Ok(c) THEN c ELSE
    Let(get_size(c, uid), LAMBDA d :
    IF ~Ok(d) THEN d
    ELSE [d EXCEPT !.rkind = "msg", !.rtext = a.rtext,
                   !.rflags = b.rflags]))))

\* get(uid, default): default on KeyError, every other exception passes.
get(s, uid) ==
    Let(getitem(s, uid), LAMBDA r :
    IF r.exc = "KeyError"
    THEN [r EXCEPT !.exc = "", !.rkind = "default"]
    ELSE r)

get_string(s, uid) == _cache_message(s, uid)

get_file(s, uid) == _cache_message(s, uid)

has_key(s, uid) ==
    LET r == search(s, "ALL")
    IN IF ~Ok(r) THEN r
       ELSE [r EXCEPT !.rkind = IF uid \in Range(r.rlist) THEN "True"
                                ELSE "False",
                      !.rlist = <<>>]

\* len counting the search for UNDELETED instead of ALL.
len_undeleted(s) ==
    LET r == search(s, "UNDELETED")
    IN IF ~Ok(r) THEN r
       ELSE [r EXCEPT !.rkind = "int", !.rint = Len(r.rlist), !.rlist = <<>>]

len(s) ==
    LET r == search(s, "ALL")
    IN IF ~Ok(r) THEN r
       ELSE [r EXCEPT !.rkind = "int", !.rint = Len(r.rlist), !.rlist = <<>>]

\* expunge(): the answer of the session is not looked at.
expunge(s) == server_expunge(s).s

flush(s) == expunge(s)

-----------------------------------------------------------------------------
(* ImapMailbox: flags *)

\* add_imapflag that sends all the flags in one store request.
add_imapflag_in_one_request(s, uid, flags) ==
    IF flags = <<>> THEN s
    ELSE LET r == uid_store(s, uid, "+FLAGS", Range(flags))
         IN IF ~Ok(r.s) THEN r.s
            ELSE IF r.code # "OK"
            THEN RaiseNaming(r.s, "ImapNotOkError", Head(flags))
            ELSE r.s

\* add_imapflag(uid, *flags): one store +FLAGS request per flag.
RECURSIVE add_imapflag(_, _, _)
add_imapflag(s, uid, flags) ==
    IF flags = <<>> THEN s
    ELSE LET r == uid_store(s, uid, "+FLAGS", {Head(flags)})
         IN IF ~Ok(r.s) THEN r.s
            ELSE IF r.code # "OK"
            THEN RaiseNaming(r.s, "ImapNotOkError", Head(flags))
            ELSE add_imapflag(r.s, uid, Tail(flags))

\* remove_imapflag(uid, *flags): one store -FLAGS request per flag.
RECURSIVE remove_imapflag(_, _, _)
remove_imapflag(s, uid, flags) ==
    IF flags = <<>> THEN s
    ELSE LET r == uid_store(s, uid, "-FLAGS", {Head(flags)})
         IN IF ~Ok(r.s) THEN r.s
            ELSE IF r.code # "OK"
            THEN RaiseNaming(r.s, "ImapNotOkError", Head(flags))
            ELSE remove_imapflag(r.s, uid, Tail(flags))

\* set_imapflags sending +FLAGS: the flags are added to those present.
set_imapflags_adds(s, uid, flags) ==
    LET r == uid_store(s, uid, "+FLAGS", flags)
    IN IF ~Ok(r.s) THEN r.s
       ELSE IF r.code # "OK" THEN Raise(r.s, "ImapNotOkError")
       ELSE r.s

\* set_imapflags(uid, flags): one store FLAGS request with all the flags.
set_imapflags(s, uid, flags) ==
    LET r == uid_store(s, uid, "FLAGS", flags)
    IN IF ~Ok(r.s) THEN r.s
       ELSE IF r.code # "OK" THEN Raise(r.s, "ImapNotOkError")
       ELSE r.s

-----------------------------------------------------------------------------
(* ImapMailbox: add *)

\* add(message): append to self.name, return the last undeleted UID.
add(s, text, flags) ==
    LET r == server_append(s, s.name, flags, text)
    IN IF r.code # "OK" THEN Raise(r.s, "ImapNotOkError")
       ELSE LET u == get_all_uids(r.s)
            IN IF ~Ok(u) THEN u
               ELSE IF u.rlist = <<>> THEN Raise(u, "IndexError")
               ELSE [u EXCEPT !.rkind = "int", !.rint = u.rlist[Len(u.rlist)],
                              !.rlist = <<>>]

-----------------------------------------------------------------------------
(* ImapMailbox: copy, move, discard, remove *)

\* The context of a call on the ImapMailbox t of another server: the
\* folders of that server, and the session of t with the folder of its name
\* selected, as its constructor leaves it.
OnTarget(s, t) ==
    [s EXCEPT !.msgs = s.remote.msgs, !.uidnext = s.remote.uidnext,
              !.exists = FolderNames, !.selected = t.name, !.name = t.name]

\* The call on the target ended in r: back in the mailbox of context s, with
\* the requests, the exception and the effects on the other server of r.
Back(s, r) ==
    [r EXCEPT !.msgs = s.msgs, !.uidnext = s.uidnext, !.exists = s.exists,
              !.selected = s.selected, !.name = s.name,
              !.remote = [msgs |-> r.msgs, uidnext |-> r.uidnext]]

\* __eq__: equal in server and name.
eq(s, other) ==
    other.kind = "imap" /\ other.same /\ other.name = s.name

ne(s, other) == ~eq(s, other)

\* copy without the replacement of a same-server ImapMailbox by its name:
\* the message is downloaded and added to the target.
copy_downloads(s, uid, targetmailbox) ==
    IF targetmailbox.kind \in {"imap", "foreign"}
    THEN IF ne(s, targetmailbox)
         THEN LET m == getitem(s, uid)
              IN IF ~Ok(m) THEN m
                 ELSE [m EXCEPT !.sink = @ \cup {m.rtext},
                                !.rkind = "none", !.rtext = None,
                                !.rflags = {}]
         ELSE s
    ELSE IF targetmailbox.kind = "str"
    THEN IF targetmailbox.name # s.name
         THEN LET r == uid_copy(s, uid, targetmailbox.name)
              IN IF ~Ok(r.s) THEN r.s
                 ELSE IF r.code # "OK" THEN Raise(r.s, "ImapNotOkError")
                 ELSE r.s
         ELSE s
    ELSE Raise(s, "TypeError")

\* copy(uid, targetmailbox): a same-server ImapMailbox is replaced by its
\* name; any other mailbox is locked, given mailbox[uid] by its own add,
\* flushed and unlocked. An exception of mailbox[uid] or of the add leaves
\* copy before the flush and the unlock. The lock and unlock of an
\* ImapMailbox do nothing, its add is add above on its own server, with the
\* text and the flags of the message, and its flush is an expunge there.
copy(s, uid, targetmailbox) ==
    LET t == IF targetmailbox.kind = "imap" /\ targetmailbox.same
             THEN Str(targetmailbox.name)
             ELSE targetmailbox
    IN IF t.kind \in {"imap", "foreign"}
       THEN IF ne(s, t)
            THEN Let(getitem([s EXCEPT !.locked = (t.kind = "foreign") \/ @],
                             uid),
                     LAMBDA m :
                 IF ~Ok(m) THEN m
                 ELSE IF t.kind = "foreign"
                 THEN [m EXCEPT !.sink = @ \cup {m.rtext},
                                !.locked = FALSE,
                                !.rkind = "none", !.rtext = None,
                                !.rflags = {}]
                 ELSE Let(add(OnTarget(m, t), m.rtext, m.rflags), LAMBDA a :
                      IF ~Ok(a) THEN Back(m, a)
                      ELSE [Back(m, flush(a)) EXCEPT
                               !.rkind = "none", !.rtext = None,
                               !.rflags = {}, !.rint = 0]))
            ELSE s
       ELSE IF t.kind = "str"
       THEN IF t.name # s.name
            THEN LET r == uid_copy(s, uid, t.name)
                 IN IF ~Ok(r.s) THEN r.s
                    ELSE IF r.code # "OK" THEN Raise(r.s, "ImapNotOkError")
                    ELSE r.s
            ELSE s
       ELSE Raise(s, "TypeError")

\* move without the store request: the source is never flagged.
move_without_flag(s, uid, targetmailbox) == copy(s, uid, targetmailbox)

\* move that flags the source before it copies.
move_flags_first(s, uid, targetmailbox) ==
    LET r == uid_store(s, uid, "+FLAGS", {Deleted})
    IN IF ~Ok(r.s) THEN r.s
       ELSE IF r.code # "OK" THEN Raise(r.s, "ImapNotOkError")
       ELSE copy(r.s, uid, targetmailbox)

\* move with "or" for "and" in the test that the target is not the source.
move_or_for_and(s, uid, targetmailbox) ==
    LET c == copy(s, uid, targetmailbox)
    IN IF ~Ok(c) THEN c
       ELSE IF ne(c, targetmailbox)
               \/ ~(targetmailbox.kind = "str" /\ targetmailbox.name = c.name)
       THEN LET r == uid_store(c, uid, "+FLAGS", {Deleted})
            IN IF ~Ok(r.s) THEN r.s
               ELSE IF r.code # "OK" THEN Raise(r.s, "ImapNotOkError")
               ELSE r.s
       ELSE c

\* move(uid, targetmailbox): copy, then \Deleted on the source.
move(s, uid, targetmailbox) ==
    Let(copy(s, uid, targetmailbox), LAMBDA c :
    IF ~Ok(c) THEN c
    ELSE IF ne(c, targetmailbox)
            /\ ~(targetmailbox.kind = "str" /\ targetmailbox.name = c.name)
    THEN LET r == uid_store(c, uid, "+FLAGS", {Deleted})
         IN IF ~Ok(r.s) THEN r.s
            ELSE IF r.code # "OK" THEN Raise(r.s, "ImapNotOkError")
            ELSE r.s
    ELSE c)

\* discard that expunges right after flagging.
discard_expunges(s, uid) ==
    LET d == IF s.trash = NoTrash
             THEN add_imapflag(s, uid, <<Deleted>>)
             ELSE move(s, uid, s.trash)
    IN IF Ok(d) THEN expunge(d) ELSE d

discard(s, uid) ==
    IF s.trash = NoTrash
    THEN add_imapflag(s, uid, <<Deleted>>)
    ELSE move(s, uid, s.trash)

\* remove without the test that the UID is in search('ALL').
remove_unchecked(s, uid) ==
    LET r == search(s, "ALL")
    IN IF ~Ok(r) THEN r
       ELSE discard([r EXCEPT !.rkind = "none", !.rlist = <<>>], uid)

remove(s, uid) ==
    LET r == search(s, "ALL")
    IN IF ~Ok(r) THEN r
       ELSE IF uid \notin Range(r.rlist) THEN Raise(r, "KeyError")
       ELSE discard([r EXCEPT !.rkind = "none", !.rlist = <<>>], uid)

delitem(s, uid) == remove(s, uid)

\* pop(uid, default): read, delete, expunge; KeyError gives the default
\* when one was supplied.
pop(s, uid, withDefault) ==
    Let(getitem(s, uid), LAMBDA m :
    Let(IF Ok(m) THEN delitem(m, uid) ELSE m, LAMBDA d :
    Let(IF Ok(d) THEN expunge(d) ELSE d, LAMBDA e :
    IF Ok(e)
    THEN [e EXCEPT !.rkind = "msg", !.rtext = m.rtext, !.rflags = m.rflags]
    ELSE IF e.exc = "KeyError"
    THEN IF withDefault
         THEN [e EXCEPT !.exc = "", !.rkind = "default"]
         ELSE Raise(e, "KeyError")
    ELSE e)))

-----------------------------------------------------------------------------
(* ImapMailbox: switch *)

\* switch that leaves the cache slot as it is.
switch_keeps_cache(s, newname, create) ==
    LET f == flush(s)
    IN IF ~Ok(f) THEN f
       ELSE IF newname = NonStr THEN Raise(f, "TypeError")
       ELSE LET n == [f EXCEPT !.name = newname]
                t == server_select(n, newname)
            IN IF Ok(t) THEN t
               ELSE IF create
               THEN server_select(
                        server_create([t EXCEPT !.exc = ""], newname),
                        newname)
               ELSE t

\* switch(name, create): flush, self.name = name (TypeError when name is no
\* string), select, with create and select again when the folder is missing
\* and create is set, then the cache slot is emptied.
switch(s, newname, create) ==
    LET f == flush(s)
    IN IF ~Ok(f) THEN f
       ELSE IF newname = NonStr THEN Raise(f, "TypeError")
       ELSE LET n == [f EXCEPT !.name = newname]
                t == server_select(n, newname)
                u == IF Ok(t) THEN t
                     ELSE IF create
                     THEN server_select(
                              server_create([t EXCEPT !.exc = ""], newname),
                              newname)
                     ELSE t
            IN IF ~Ok(u) THEN u
               ELSE [u EXCEPT !.cached_uid = NoUid, !.cached_text = None]

-----------------------------------------------------------------------------
(* ImapMailbox: popitem *)

\* popitem without the expunge it starts with.
popitem_without_flush(s) ==
    Let(search(s, "ALL"), LAMBDA q :
    IF ~Ok(q) THEN q
    ELSE IF Len(q.rlist) > 0
    THEN Let(getitem([q EXCEPT !.rkind = "none", !.rlist = <<>>], q.rlist[1]),
             LAMBDA m :
         Let(IF Ok(m) THEN delitem(m, q.rlist[1]) ELSE m, LAMBDA d :
         Let(IF Ok(d) THEN expunge(d) ELSE d, LAMBDA e :
         IF Ok(e)
         THEN [e EXCEPT !.rkind = "item", !.rint = q.rlist[1],
                        !.rtext = m.rtext, !.rflags = m.rflags]
         ELSE e)))
    ELSE Raise(q, "KeyError"))

\* popitem(): expunge, take the first UID of search('ALL'), read it, delete
\* it, expunge; KeyError when the search returns no UID.
popitem(s) ==
    Let(expunge(s), LAMBDA x :
    IF ~Ok(x) THEN x ELSE
    Let(search(x, "ALL"), LAMBDA q :
    IF ~Ok(q) THEN q
    ELSE IF Len(q.rlist) > 0
    THEN Let(getitem([q EXCEPT !.rkind = "none", !.rlist = <<>>], q.rlist[1]),
             LAMBDA m :
         Let(IF Ok(m) THEN delitem(m, q.rlist[1]) ELSE m, LAMBDA d :
         Let(IF Ok(d) THEN expunge(d) ELSE d, LAMBDA e :
         IF Ok(e)
         THEN [e EXCEPT !.rkind = "item", !.rint = q.rlist[1],
                        !.rtext = m.rtext, !.rflags = m.rflags]
         ELSE e)))
    ELSE Raise(q, "KeyError")))

-----------------------------------------------------------------------------
(* ImapMailbox: keys, values, items *)

\* iterkeys(): an iterator over the list search('ALL') returns.
iterkeys(s) == search(s, "ALL")

\* keys(): search(None, "ALL") binds criteria to None and charset to "ALL",
\* so the criteria sent are "(None)".
keys(s) == search(s, None)

\* The loops of values and items: mailbox[uid] for each UID of uids in
\* turn, appended to the result.
RECURSIVE each(_, _, _, _)
each(s, uids, withUid, acc) ==
    IF uids = <<>> THEN [s EXCEPT !.rkind = "list", !.rlist = acc]
    ELSE Let(getitem(s, Head(uids)), LAMBDA m :
         IF ~Ok(m) THEN m
         ELSE each([m EXCEPT !.rkind = "none", !.rtext = None, !.rflags = {}],
                   Tail(uids), withUid,
                   Append(acc,
                          IF withUid
                          THEN [uid |-> Head(uids), text |-> m.rtext,
                                flags |-> m.rflags]
                          ELSE [text |-> m.rtext, flags |-> m.rflags])))

\* itervalues(): the call makes a generator and runs none of its body.
itervalues(s) ==
    [s EXCEPT !.gen = Gen("values", "new", <<>>), !.rkind = "generator"]

\* __iter__(): identical to itervalues.
iter(s) == itervalues(s)

\* iteritems(): the call makes a generator and runs none of its body.
iteritems(s) ==
    [s EXCEPT !.gen = Gen("items", "new", <<>>), !.rkind = "generator"]

\* The generator is at the head of its for loop with uids left to visit:
\* StopIteration at the end of the list, else mailbox[uid] is read and
\* yielded (with the UID for iteritems); an exception ends the generator.
resume_loop(s, uids) ==
    IF uids = <<>>
    THEN Raise([s EXCEPT !.gen.phase = "done", !.gen.uids = <<>>],
               "StopIteration")
    ELSE Let(getitem(s, Head(uids)), LAMBDA m :
         IF ~Ok(m) THEN [m EXCEPT !.gen.phase = "done", !.gen.uids = <<>>]
         ELSE [m EXCEPT !.gen.phase = "running", !.gen.uids = Tail(uids),
                        !.rkind = IF s.gen.kind = "items" THEN "item"
                                  ELSE "msg",
                        !.rint = IF s.gen.kind = "items" THEN Head(uids)
                                 ELSE 0])

\* next() on the generator the client holds: a new generator first takes
\* its UID list (search('ALL') in itervalues, keys() in iteritems), a
\* suspended one goes on after its yield, a finished one raises
\* StopIteration.
resume(s) ==
    IF s.gen.phase = "done" THEN Raise(s, "StopIteration")
    ELSE IF s.gen.phase = "new"
    THEN Let(IF s.gen.kind = "values" THEN search(s, "ALL") ELSE keys(s),
             LAMBDA q :
         IF ~Ok(q) THEN [q EXCEPT !.gen.phase = "done"]
         ELSE resume_loop([q EXCEPT !.rkind = "none", !.rlist = <<>>],
                          q.rlist))
    ELSE resume_loop(s, s.gen.uids)

\* values(): the loop over iter(self) run to its end in the call, on a
\* generator of its own.
values(s) ==
    Let(search(s, "ALL"), LAMBDA q :
    IF ~Ok(q) THEN q
    ELSE each([q EXCEPT !.rkind = "none", !.rlist = <<>>], q.rlist, FALSE, <<>>))

\* items(): the loop over keys() run to its end in the call.
items(s) ==
    Let(keys(s), LAMBDA q :
    IF ~Ok(q) THEN q
    ELSE each([q EXCEPT !.rkind = "none", !.rlist = <<>>], q.rlist, TRUE, <<>>))

-----------------------------------------------------------------------------
(* ImapMailbox: clear *)

\* The loop of clear: discard for each UID of uids in turn.
RECURSIVE discard_each(_, _)
discard_each(s, uids) ==
    IF uids = <<>> THEN s
    ELSE Let(discard(s, Head(uids)), LAMBDA d :
         IF ~Ok(d) THEN d ELSE discard_each(d, Tail(uids)))

\* clear that leaves out the expunge at its end.
clear_without_expunge(s) ==
    Let(get_all_uids(s), LAMBDA q :
    IF ~Ok(q) THEN q
    ELSE discard_each([q EXCEPT !.rkind = "none", !.rlist = <<>>], q.rlist))

\* clear(): discard every UID of get_all_uids(), then expunge.
clear(s) ==
    Let(get_all_uids(s), LAMBDA q :
    IF ~Ok(q) THEN q ELSE
    Let(discard_each([q EXCEPT !.rkind = "none", !.rlist = <<>>], q.rlist),
        LAMBDA d :
    IF ~Ok(d) THEN d ELSE expunge(d)))

-----------------------------------------------------------------------------
(* ImapMailbox: __setitem__, update *)

\* __setitem__ that appends the message to the folder.
setitem_adds(s, uid, message) == add(s, message, {})

\* __setitem__(uid, message)
setitem(s, uid, message) == Raise(s, "NotSupportedError")

\* update(arg)
update(s, arg) == Raise(s, "NotSupportedError")

-----------------------------------------------------------------------------
(* ImapMailbox: close *)

\* close(): flush, then close and log out of the session, which leaves no
\* folder selected.
close(s) ==
    Let(flush(s), LAMBDA f :
    IF ~Ok(f) THEN f ELSE [f EXCEPT !.selected = NoFolder])

-----------------------------------------------------------------------------
(* ImapMailbox: reconnect *)

\* The number of selects that fail on a broken connection, as reconnect() is
\* called with: none, the first, or the first and the second.
Breaks == 0..2

\* reconnect(): reconnect, login and select self.name; when that select
\* raises anything, reconnect, login and select once more. The handler of
\* NoSuchMailboxError of the second select reads the name create, which is
\* bound nowhere, and so raises NameError. The cache slot is not touched.
reconnect(s, broken) ==
    LET a == server_login(server_reconnect(s))
        t == IF broken >= 1 THEN Raise(a, "abort")
             ELSE server_select(a, a.name)
    IN IF Ok(t) THEN t
       ELSE LET b == server_login(server_reconnect([t EXCEPT !.exc = ""]))
                u == IF broken >= 2 THEN Raise(b, "abort")
                     ELSE server_select(b, b.name)
            IN IF u.exc = "NoSuchMailboxError"
               THEN Raise(u, "NameError")
               ELSE u

-----------------------------------------------------------------------------
(* The state machine *)

\* The current state as the context of a call whose fail-th request is
\* answered with NO (0: every request is answered with OK).
Ctx(fail) ==
    [msgs |-> msgs, uidnext |-> uidnext, exists |-> exists,
     selected |-> selected, name |-> name,
     cached_uid |-> cached_uid, cached_text |-> cached_text,
     trash |-> trash, sink |-> sink, remote |-> remote, locked |-> locked,
     gen |-> gen,
     reqs |-> <<>>, nos |-> {}, fail |-> fail, resp |-> "list",
     exc |-> "", earg |-> None,
     rkind |-> "none", rtext |-> None, rflags |-> {}, rlist |-> <<>>,
     rint |-> 0]

\* The positions at which a call that issues the requests q when every
\* answer is OK can be given a NO (0: nowhere).
Fails(q) == 0..Len(q)

\* Messages created since Init: on the server, on the other server and in
\* the foreign mailbox.
Created(s) ==
    (s.uidnext["INBOX"] - 3) + (s.uidnext["Trash"] - 1) + Cardinality(s.sink)
    + (s.remote.uidnext["INBOX"] - 2) + (s.remote.uidnext["Trash"] - 1)

\* The context of the call that follows the call that ended in s.
Then(s) ==
    [s EXCEPT !.reqs = <<>>, !.nos = {}, !.fail = 0, !.resp = "list",
              !.exc = "", !.earg = None, !.rkind = "none", !.rtext = None, !.rflags = {},
              !.rlist = <<>>, !.rint = 0]

\* The call ended in context s: its effects become the state.
Done(s) ==
    /\ Created(s) <= MaxNew
    /\ msgs' = s.msgs
    /\ uidnext' = s.uidnext
    /\ exists' = s.exists
    /\ selected' = s.selected
    /\ name' = s.name
    /\ cached_uid' = s.cached_uid
    /\ cached_text' = s.cached_text
    /\ trash' = s.trash
    /\ sink' = s.sink
    /\ remote' = s.remote
    /\ locked' = s.locked
    /\ gen' = s.gen

Init ==
    /\ msgs = [f \in FolderNames |->
                  IF f = "INBOX"
                  THEN [u \in {1, 2} |->
                           IF u = 1 THEN [text |-> "a", flags |-> {}]
                           ELSE [text |-> "b", flags |-> {Seen}]]
                  ELSE [u \in {} |-> [text |-> "a", flags |-> {}]]]
    /\ uidnext = [f \in FolderNames |-> IF f = "INBOX" THEN 3 ELSE 1]
    /\ exists \in {{"INBOX"}, {"INBOX", "Trash"}}
    /\ selected = "INBOX"
    /\ name = "INBOX"
    /\ cached_uid = NoUid
    /\ cached_text = None
    /\ trash = NoTrash
    /\ sink = {}
    /\ remote = [msgs |-> [f \in FolderNames |->
                               IF f = "INBOX"
                               THEN [u \in {1} |-> [text |-> "c", flags |-> {}]]
                               ELSE [u \in {} |-> [text |-> "c", flags |-> {}]]],
                 uidnext |-> [f \in FolderNames |->
                                 IF f = "INBOX" THEN 2 ELSE 1]]
    /\ locked = FALSE
    /\ gen = NoGen

GetString ==
    \E uid \in Uids :
      \E fail \in Fails(get_string(Ctx(0), uid).reqs) :
        Done(get_string(Ctx(fail), uid))

GetFile ==
    \E uid \in Uids :
      \E fail \in Fails(get_file(Ctx(0), uid).reqs) :
        Done(get_file(Ctx(fail), uid))

GetItem ==
    \E uid \in Uids :
      \E fail \in Fails(getitem(Ctx(0), uid).reqs) :
        Done(getitem(Ctx(fail), uid))

Get ==
    \E uid \in Uids :
      \E fail \in Fails(get(Ctx(0), uid).reqs) :
        Done(get(Ctx(fail), uid))

Pop ==
    \E uid \in Uids, withDefault \in BOOLEAN :
      \E fail \in Fails(pop(Ctx(0), uid, withDefault).reqs) :
        Done(pop(Ctx(fail), uid, withDefault))

Remove ==
    \E uid \in Uids :
      \E fail \in Fails(remove(Ctx(0), uid).reqs) :
        Done(remove(Ctx(fail), uid))

Discard ==
    \E uid \in Uids :
      \E fail \in Fails(discard(Ctx(0), uid).reqs) :
        Done(discard(Ctx(fail), uid))

Expunge ==
    \E fail \in Fails(expunge(Ctx(0)).reqs) :
        Done(expunge(Ctx(fail)))

Copy ==
    \E uid \in Uids, tgt \in Targets :
      \E fail \in Fails(copy(Ctx(0), uid, tgt).reqs) :
        Done(copy(Ctx(fail), uid, tgt))

Move ==
    \E uid \in Uids, tgt \in Targets :
      \E fail \in Fails(move(Ctx(0), uid, tgt).reqs) :
        Done(move(Ctx(fail), uid, tgt))

CopyElsewhere ==
    \E uid \in Uids, tgt \in Elsewhere :
      \E fail \in Fails(copy(Ctx(0), uid, tgt).reqs) :
        Done(copy(Ctx(fail), uid, tgt))

MoveElsewhere ==
    \E uid \in Uids, tgt \in Elsewhere :
      \E fail \in Fails(move(Ctx(0), uid, tgt).reqs) :
        Done(move(Ctx(fail), uid, tgt))

Add ==
    \E text \in {"c"}, flags \in {{}, {Deleted}} :
      \E fail \in Fails(add(Ctx(0), text, flags).reqs) :
        Done(add(Ctx(fail), text, flags))

Switch ==
    \E f \in FolderNames \cup {NonStr}, create \in BOOLEAN :
      \E fail \in Fails(switch(Ctx(0), f, create).reqs) :
        Done(switch(Ctx(fail), f, create))

\* The client assigns the public attribute trash.
SetTrash ==
    \E t \in TrashChoices :
        /\ t # trash
        /\ Done([Ctx(0) EXCEPT !.trash = t])

PopItem ==
    \E fail \in Fails(popitem(Ctx(0)).reqs) :
        Done(popitem(Ctx(fail)))

IterKeys ==
    \E fail \in Fails(iterkeys(Ctx(0)).reqs) :
        Done(iterkeys(Ctx(fail)))

Keys ==
    \E fail \in Fails(keys(Ctx(0)).reqs) :
        Done(keys(Ctx(fail)))

Values ==
    \E fail \in Fails(values(Ctx(0)).reqs) :
        Done(values(Ctx(fail)))

Items ==
    \E fail \in Fails(items(Ctx(0)).reqs) :
        Done(items(Ctx(fail)))

IterValues == Done(itervalues(Ctx(0)))

Iter == Done(iter(Ctx(0)))

IterItems == Done(iteritems(Ctx(0)))

\* next() on the generator the client holds.
Resume ==
    /\ gen # NoGen
    /\ \E fail \in Fails(resume(Ctx(0)).reqs) :
           Done(resume(Ctx(fail)))

\* The flag arguments of add_imapflag and remove_imapflag.
FlagArgs == {<<f>> : f \in FlagNames}
            \cup {<<f, g>> : f \in FlagNames, g \in FlagNames}

GetImapFlags ==
    \E uid \in Uids :
      \E fail \in Fails(get_imapflags(Ctx(0), uid).reqs) :
        Done(get_imapflags(Ctx(fail), uid))

AddImapFlag ==
    \E uid \in Uids, flags \in FlagArgs :
      \E fail \in Fails(add_imapflag(Ctx(0), uid, flags).reqs) :
        Done(add_imapflag(Ctx(fail), uid, flags))

RemoveImapFlag ==
    \E uid \in Uids, flags \in FlagArgs :
      \E fail \in Fails(remove_imapflag(Ctx(0), uid, flags).reqs) :
        Done(remove_imapflag(Ctx(fail), uid, flags))

SetImapFlags ==
    \E uid \in Uids, flags \in SUBSET FlagNames :
      \E fail \in Fails(set_imapflags(Ctx(0), uid, flags).reqs) :
        Done(set_imapflags(Ctx(fail), uid, flags))

Clear ==
    \E fail \in Fails(clear(Ctx(0)).reqs) :
        Done(clear(Ctx(fail)))

\* The arguments of update: None, or pairs (uid, message).
UpdateArgs == {None} \cup (Uids \X Texts)

SetItem ==
    \E uid \in Uids, message \in Texts :
        Done(setitem(Ctx(0), uid, message))

Update ==
    \E arg \in UpdateArgs :
        Done(update(Ctx(0), arg))

Close ==
    \E fail \in Fails(close(Ctx(0)).reqs) :
        Done(close(Ctx(fail)))

\* The context of a call during which the session answers searches with
\* data of the shape resp.
CtxShape(fail, resp) == [Ctx(fail) EXCEPT !.resp = resp]

Search ==
    \E criteria \in SearchKeys, resp \in Shapes :
      \E fail \in Fails(search(CtxShape(0, resp), criteria).reqs) :
        Done(search(CtxShape(fail, resp), criteria))

GetHeader ==
    \E uid \in Uids :
      \E fail \in Fails(get_header(Ctx(0), uid).reqs) :
        Done(get_header(Ctx(fail), uid))

Reconnect ==
    \E broken \in Breaks :
        Done(reconnect(Ctx(0), broken))

Next ==
    \/ GetString
    \/ GetFile
    \/ GetItem
    \/ Get
    \/ Pop
    \/ Remove
    \/ Discard
    \/ Expunge
    \/ Copy
    \/ Move
    \/ Add
    \/ Switch
    \/ SetTrash

Spec == Init /\ [][Next]_vars

\* The rest of the mapping interface (popitem, clear, keys, values, items,
\* item assignment, update) and close, on the folders that add, discard,
\* expunge, switch and the trash setting produce.
NextMapping ==
    \/ PopItem
    \/ Clear
    \/ IterKeys
    \/ Keys
    \/ Values
    \/ Items
    \/ SetItem
    \/ Update
    \/ Close
    \/ Search
    \/ GetItem
    \/ Add
    \/ Discard
    \/ Expunge
    \/ Switch
    \/ SetTrash

SpecMapping == Init /\ [][NextMapping]_vars

\* The flag operations, on the messages of the folder and those add appends.
NextFlags ==
    \/ GetImapFlags
    \/ AddImapFlag
    \/ RemoveImapFlag
    \/ SetImapFlags
    \/ Add
    \/ Expunge

SpecFlags == Init /\ [][NextFlags]_vars

\* The life cycle of the session (switch, reconnect, close) around the raw
\* reads, with the trash setting and discard to fill the second folder.
NextSession ==
    \/ Switch
    \/ Reconnect
    \/ Close
    \/ GetString
    \/ GetItem
    \/ Discard
    \/ Expunge
    \/ SetTrash

SpecSession == Init /\ [][NextSession]_vars

\* Full and header-only reads between flag changes.
NextRead ==
    \/ GetItem
    \/ GetHeader
    \/ AddImapFlag
    \/ RemoveImapFlag
    \/ SetImapFlags
    \/ Add
    \/ Expunge

SpecRead == Init /\ [][NextRead]_vars

\* The generators of itervalues, __iter__ and iteritems, resumed between
\* changes of the folder, next to values and items.
NextIter ==
    \/ IterValues
    \/ Iter
    \/ IterItems
    \/ Resume
    \/ Values
    \/ Items
    \/ Add
    \/ Discard
    \/ Expunge
    \/ Close

SpecIter == Init /\ [][NextIter]_vars

\* copy and move to every kind of target, an ImapMailbox on another server
\* included, between reads, discards, expunges and switches of the folder.
NextCopy ==
    \/ Copy
    \/ Move
    \/ CopyElsewhere
    \/ MoveElsewhere
    \/ GetString
    \/ Discard
    \/ Expunge
    \/ Switch

SpecCopy == Init /\ [][NextCopy]_vars

-----------------------------------------------------------------------------
(* Vocabulary of the properties *)

\* A folder is selected on the session.
Live == selected # NoFolder

\* The UIDs in the selected folder.
Present == IF Live THEN DOMAIN msgs[selected] ELSE {}

RawKinds == {"get_string", "get_file", "getitem"}

\* The three raw reads: get_string, get_file and get_message (mailbox[uid]).
RawRead(s, kind, uid) ==
    CASE kind = "get_string" -> get_string(s, uid)
      [] kind = "get_file" -> get_file(s, uid)
      [] OTHER -> getitem(s, uid)

\* The object's fields and the server side in s are those of the state.
SameState(s) ==
    /\ s.msgs = msgs
    /\ s.uidnext = uidnext
    /\ s.exists = exists
    /\ s.selected = selected
    /\ s.name = name
    /\ s.cached_uid = cached_uid
    /\ s.cached_text = cached_text
    /\ s.trash = trash
    /\ s.sink = sink
    /\ s.remote = remote
    /\ s.locked = locked
    /\ s.gen = gen

-----------------------------------------------------------------------------
(* C1 *)

\* C1: for a UID u in the selected folder and requests answered OK, two
\* consecutive raw reads of u (get_string, get_file, mailbox[u] in any
\* combination) issue one RFC822 fetch in all (none when the slot held u
\* already): the second read issues none and returns the text of u from the
\* slot. A raw read of another UID v of the folder then issues one RFC822
\* fetch, and the slot holds v and the text of v, no longer u.
C1_SecondReadFromCache ==
    \A u \in Present : \A k1 \in RawKinds, k2 \in RawKinds :
        LET r1 == RawRead(Ctx(0), k1, u)
            r2 == RawRead(Then(r1), k2, u)
        IN /\ Ok(r1) /\ Ok(r2)
           /\ Count(r1.reqs, "RFC822") = IF cached_uid = u THEN 0 ELSE 1
           /\ Count(r2.reqs, "RFC822") = 0
           /\ r1.rtext = msgs[selected][u].text
           /\ r2.rtext = r1.rtext
           /\ r2.cached_uid = u
           /\ r2.cached_text = r1.rtext
           /\ \A v \in Present \ {u} : \A k3 \in RawKinds :
                  LET r3 == RawRead(Then(r2), k3, v)
                  IN /\ Ok(r3)
                     /\ Count(r3.reqs, "RFC822") = 1
                     /\ r3.rtext = msgs[selected][v].text
                     /\ r3.cached_uid = v
                     /\ r3.cached_text = r3.rtext

\* A raw read of u has filled the slot, a second read of u is served from
\* it, and the folder holds another message to read next.
C1_Witness ==
    /\ cached_uid \in Present
    /\ cached_text = msgs[selected][cached_uid].text
    /\ Present \ {cached_uid} # {}
    /\ get_string(Ctx(0), cached_uid).reqs = <<>>
    /\ get_string(Ctx(0), cached_uid).rtext = cached_text

-----------------------------------------------------------------------------
(* C2 *)

\* C2: for every UID u that is not in the selected folder, with every
\* request answered OK and after any earlier operations, get_string(u),
\* get_file(u) and mailbox[u] raise KeyError and get(u, default) returns
\* default.
C2_AbsentUidIsKeyError ==
    Live =>
        \A u \in Uids \ Present :
            /\ get_string(Ctx(0), u).exc = "KeyError"
            /\ get_file(Ctx(0), u).exc = "KeyError"
            /\ getitem(Ctx(0), u).exc = "KeyError"
            /\ get(Ctx(0), u).exc = ""
            /\ get(Ctx(0), u).rkind = "default"

-----------------------------------------------------------------------------
(* C3 *)

\* C3: in every reachable state with a folder selected and requests answered
\* OK, every UID that search('ALL') returns has has_key(uid) True and
\* mailbox[uid] returns its message without raising; len(mailbox) is the
\* number of UIDs search('ALL') returns, and that counts every message of
\* the folder, those flagged \Deleted and not yet expunged included.
C3_AllUidsAreReadable ==
    Live =>
        LET r == search(Ctx(0), "ALL")
        IN /\ Ok(r)
           /\ Range(r.rlist) = DOMAIN msgs[selected]
           /\ Len(r.rlist) = Cardinality(DOMAIN msgs[selected])
           /\ len(Ctx(0)).exc = ""
           /\ len(Ctx(0)).rint = Len(r.rlist)
           /\ \A i \in DOMAIN r.rlist :
                  LET m == getitem(Ctx(0), r.rlist[i])
                  IN /\ has_key(Ctx(0), r.rlist[i]).rkind = "True"
                     /\ Ok(m)
                     /\ m.rkind = "msg"
                     /\ m.rtext = msgs[selected][r.rlist[i]].text
                     /\ m.rflags = msgs[selected][r.rlist[i]].flags

\* The folder holds a message flagged \Deleted next to one that is not, and
\* len counts both.
C3_Witness ==
    /\ Live
    /\ \E u \in Present, v \in Present :
           /\ Deleted \in msgs[selected][u].flags
           /\ Deleted \notin msgs[selected][v].flags
    /\ len(Ctx(0)).rint = Cardinality(Present)
    /\ len(Ctx(0)).rint >= 2

-----------------------------------------------------------------------------
(* C4 *)

\* The trash setting leaves discard working on the source folder: trash is
\* unset or names a folder other than the source.
TrashElsewhere ==
    \/ trash = NoTrash
    \/ trash.kind = "str" /\ trash.name # name

\* C4: with trash unset or naming a folder other than the source, and the
\* requests answered OK: if uid is in search('ALL') and remove(uid) returns,
\* then after expunge() uid is not in search('ALL'), has_key(uid) is False
\* and a second remove(uid) raises KeyError. remove(uid) does return when
\* trash is unset or the trash folder exists.
C4_RemoveExpungeRemoves ==
    (Live /\ TrashElsewhere) =>
        \A u \in Range(search(Ctx(0), "ALL").rlist) :
            LET r == remove(Ctx(0), u)
                e == expunge(Then(r))
            IN /\ (trash = NoTrash \/ trash.name \in exists) => Ok(r)
               /\ Ok(r) =>
                     /\ Ok(e)
                     /\ u \notin Range(search(Then(e), "ALL").rlist)
                     /\ has_key(Then(e), u).rkind = "False"
                     /\ remove(Then(e), u).exc = "KeyError"

\* Message 1 went through remove into the trash folder and was expunged:
\* it is gone from the source and a second remove raises KeyError.
C4_Witness ==
    /\ selected = "INBOX"
    /\ trash = Str("Trash")
    /\ 1 \notin DOMAIN msgs["INBOX"]
    /\ \E w \in DOMAIN msgs["Trash"] : msgs["Trash"][w].text = "a"
    /\ has_key(Ctx(0), 1).rkind = "False"
    /\ remove(Ctx(0), 1).exc = "KeyError"

-----------------------------------------------------------------------------
(* C5 *)

\* discard(u) with trash unset, on a UID of the folder: one store request
\* that adds \Deleted to u, and nothing else changes.
C5_DiscardFlagsOnly ==
    (Live /\ trash = NoTrash) =>
        \A u \in Present :
            LET d == discard(Ctx(0), u)
            IN /\ Ok(d)
               /\ d.reqs = <<"store">>
               /\ d.msgs = [msgs EXCEPT
                               ![selected][u].flags = @ \cup {Deleted}]
               /\ SameState([d EXCEPT !.msgs = msgs])
               /\ u \in Range(search(Then(d), "ALL").rlist)
               /\ has_key(Then(d), u).rkind = "True"

\* A message leaves a folder only in a step of an operation that expunges.
C5_GoneOnlyByExpunge ==
    (\E f \in FolderNames : DOMAIN msgs[f] \ DOMAIN msgs'[f] # {})
        => (Expunge \/ Pop \/ PopItem \/ Clear \/ Switch)

\* C5: with trash unset, discard(uid) on an existing uid adds the \Deleted
\* flag to uid and changes nothing else (no other message's flags or
\* presence, no field of the mailbox); uid stays in search('ALL') and
\* has_key(uid) stays True, and it is an expunging operation (expunge, pop,
\* popitem, clear, switch) that removes any message from a folder.
C5_DiscardKeepsUntilExpunge ==
    []C5_DiscardFlagsOnly /\ [][C5_GoneOnlyByExpunge]_vars

\* discard has flagged message 1: it is \Deleted, still in the folder, and
\* message 2 is as it was.
C5_Witness ==
    /\ selected = "INBOX"
    /\ trash = NoTrash
    /\ 1 \in Present
    /\ msgs["INBOX"][1] = [text |-> "a", flags |-> {Deleted}]
    /\ 2 \in Present
    /\ msgs["INBOX"][2] = [text |-> "b", flags |-> {Seen}]
    /\ has_key(Ctx(0), 1).rkind = "True"

-----------------------------------------------------------------------------
(* C6 *)

\* The messages folder f gained from state context s to context d.
Gained(s, d, f) ==
    {d.msgs[f][w] : w \in DOMAIN d.msgs[f] \ DOMAIN s.msgs[f]}

\* C6 as stated: with a trash folder (other than the source) configured,
\* once discard(uid) on an existing uid has returned, uid is not in the
\* source folder's search('ALL') and a copy is in the trash folder.
C6_DiscardToTrashLeavesAll ==
    (Live /\ trash.kind = "str" /\ trash.name # name) =>
        \A u \in Present :
            LET d == discard(Ctx(0), u)
            IN Ok(d) =>
                  /\ u \notin Range(search(Then(d), "ALL").rlist)
                  /\ \E m \in Gained(Ctx(0), d, trash.name) :
                         m.text = msgs[selected][u].text

\* C6 amended: with a trash folder other than the source configured, once
\* discard(uid) on an existing uid has returned, a copy of the message is in
\* the trash folder and uid is flagged \Deleted in the source folder; uid
\* stays in search('ALL') until an expunge, which removes it. discard(uid)
\* returns exactly when the trash folder exists.
C6_DiscardToTrashFlags ==
    (Live /\ trash.kind = "str" /\ trash.name # name) =>
        \A u \in Present :
            LET d == discard(Ctx(0), u)
                e == expunge(Then(d))
            IN /\ Ok(d) <=> trash.name \in exists
               /\ Ok(d) =>
                     /\ d.reqs = <<"copy", "store">>
                     /\ Gained(Ctx(0), d, trash.name) = {msgs[selected][u]}
                     /\ d.msgs[selected] =
                            [msgs[selected] EXCEPT
                                ![u].flags = @ \cup {Deleted}]
                     /\ u \in Range(search(Then(d), "ALL").rlist)
                     /\ u \notin Range(search(Then(e), "ALL").rlist)

\* discard has moved message 1 to the trash folder: the copy is there, and
\* message 1 is still in the source, flagged \Deleted.
C6_Witness ==
    /\ selected = "INBOX"
    /\ trash = Str("Trash")
    /\ 1 \in Present
    /\ msgs["INBOX"][1] = [text |-> "a", flags |-> {Deleted}]
    /\ \E w \in DOMAIN msgs["Trash"] :
           msgs["Trash"][w] = [text |-> "a", flags |-> {}]
    /\ has_key(Ctx(0), 1).rkind = "True"

-----------------------------------------------------------------------------
(* C7 *)

\* The targets that denote the source folder itself.
SourceTargets == {Str(name), Imap(name, TRUE)}

\* The text is in the target of a copy that ran from the state to context d.
InTarget(d, tgt, text) ==
    CASE tgt.kind = "str" \/ (tgt.kind = "imap" /\ tgt.same) ->
             \E m \in Gained(Ctx(0), d, tgt.name) : m.text = text
      [] tgt.kind = "imap" ->
             \E w \in DOMAIN d.remote.msgs[tgt.name]
                          \ DOMAIN remote.msgs[tgt.name] :
                 d.remote.msgs[tgt.name][w].text = text
      [] tgt.kind = "foreign" -> text \in d.sink
      [] OTHER -> FALSE

\* C7: move(uid, target) to a target other than the source (a folder name,
\* an ImapMailbox on this or on another server, a foreign mailbox, an
\* unsupported value), with a NO at any request or none: when the copy step
\* raises (non-OK status, absent UID in the fetch of a downloading copy, an
\* exception of the add of a target on another server, unsupported target
\* type), move raises the same, issues no store request and leaves every
\* message and flag on the server as it was; when the copy step completes,
\* the store request is the one that follows it. So a message that was in
\* the source and not flagged \Deleted before the call is, however the call
\* ends, in the source and not flagged \Deleted, or in the target.
C7_MoveFlagsAfterCopy ==
    \A u \in Uids : \A tgt \in (Targets \cup Elsewhere) \ SourceTargets :
        \A fail \in Fails(move(Ctx(0), u, tgt).reqs) :
            LET c == copy(Ctx(fail), u, tgt)
                m == move(Ctx(fail), u, tgt)
            IN /\ ~Ok(c) =>
                     /\ m.exc = c.exc
                     /\ "store" \notin Range(m.reqs)
                     /\ m.msgs = msgs
               /\ Ok(c) =>
                     /\ m.reqs = c.reqs \o <<"store">>
                     /\ Ok(m) /\ u \in Present =>
                            Deleted \in m.msgs[selected][u].flags
               /\ (u \in Present /\ Deleted \notin msgs[selected][u].flags) =>
                     \/ /\ u \in DOMAIN m.msgs[selected]
                        /\ Deleted \notin m.msgs[selected][u].flags
                     \/ InTarget(m, tgt, msgs[selected][u].text)

\* The state a move leaves when its store request is answered NO: the copy
\* of message 1 is in the target and message 1 is unflagged in the source;
\* a move whose copy request is answered NO issues nothing more.
C7_Witness ==
    /\ selected = "INBOX"
    /\ 1 \in Present
    /\ msgs["INBOX"][1] = [text |-> "a", flags |-> {}]
    /\ \E w \in DOMAIN msgs["Trash"] : msgs["Trash"][w].text = "a"
    /\ move(Ctx(1), 1, Str("Trash")).exc = "ImapNotOkError"
    /\ move(Ctx(1), 1, Str("Trash")).reqs = <<"copy">>
    /\ move(Ctx(1), 2, Invalid).exc = "TypeError"
    /\ LET m == move(Ctx(6), 1, Imap("Trash", FALSE))
       IN /\ m.exc = "ImapNotOkError"
          /\ m.reqs = <<"RFC822", "FLAGS", "INTERNALDATE", "SIZE",
                        "append", "search">>
          /\ m.msgs = msgs
          /\ InTarget(m, Imap("Trash", FALSE), "a")

-----------------------------------------------------------------------------
(* C8 *)

\* C8: move(uid, target) and copy(uid, target) with a target that denotes
\* the source folder itself (its own name as a string, or an ImapMailbox
\* equal to self in server and name) return without issuing any request and
\* change nothing: folders, message count, flags (uid is not flagged
\* \Deleted by it) and the fields of the mailbox are as before.
C8_SameFolderIsNoOp ==
    \A u \in Uids : \A tgt \in SourceTargets :
        LET c == copy(Ctx(0), u, tgt)
            m == move(Ctx(0), u, tgt)
        IN /\ Ok(c) /\ c.reqs = <<>> /\ SameState(c)
           /\ Ok(m) /\ m.reqs = <<>> /\ SameState(m)
           /\ len(Then(m)).rint = len(Ctx(0)).rint

\* After a switch to Trash the source is Trash: a message copied there is
\* left unflagged by a move onto "Trash" or onto an equal ImapMailbox, which
\* issue no request, while a move to "INBOX" issues its copy and store.
C8_Witness ==
    /\ selected = "Trash"
    /\ name = "Trash"
    /\ \E u \in Present :
           /\ Deleted \notin msgs[selected][u].flags
           /\ \A tgt \in {Str("Trash"), Imap("Trash", TRUE)} :
                  /\ move(Ctx(0), u, tgt).reqs = <<>>
                  /\ move(Ctx(0), u, tgt).msgs = msgs
           /\ move(Ctx(0), u, Str("INBOX")).reqs = <<"copy", "store">>

-----------------------------------------------------------------------------
(* C9 *)

\* C9: copy(uid, target) of a UID of the folder, with target another,
\* existing folder on the same server (by name, or as an ImapMailbox on an
\* equal server) and the request answered OK, issues exactly one request,
\* the UID COPY, and no fetch; afterwards the source folder, its flags and
\* the cache slot are as before, and the target folder holds exactly one
\* new message, whose text (and flags) are those of the source message.
C9_SameServerCopy ==
    Live =>
        \A u \in Present : \A t \in exists \ {name} :
            \A tgt \in {Str(t), Imap(t, TRUE)} :
                LET c == copy(Ctx(0), u, tgt)
                IN /\ Ok(c)
                   /\ c.reqs = <<"copy">>
                   /\ c.msgs[selected] = msgs[selected]
                   /\ DOMAIN c.msgs[t] = DOMAIN msgs[t] \cup {uidnext[t]}
                   /\ uidnext[t] \notin DOMAIN msgs[t]
                   /\ c.msgs[t][uidnext[t]].text = msgs[selected][u].text
                   /\ \A w \in DOMAIN msgs[t] : c.msgs[t][w] = msgs[t][w]
                   /\ SameState([c EXCEPT !.msgs = msgs, !.uidnext = uidnext])

\* A copy has put the text of message 2 into the Trash folder, and message 2
\* is in the source with its flags.
C9_Witness ==
    /\ selected = "INBOX"
    /\ 2 \in Present
    /\ msgs["INBOX"][2] = [text |-> "b", flags |-> {Seen}]
    /\ \E w \in DOMAIN msgs["Trash"] : msgs["Trash"][w].text = "b"

-----------------------------------------------------------------------------
(* C10 *)

\* C10 as stated, with trash unset and the requests answered OK: pop(uid,
\* default) of a UID of the folder returns its message and the UID is gone
\* from search('ALL'); of a UID not in the folder it returns default when a
\* non-None default is given and raises KeyError otherwise, whatever came
\* before (a pop of the same UID included).
C10_PopAbsentIsDefaultOrKeyError ==
    (Live /\ trash = NoTrash) =>
        \A u \in Uids : \A withDefault \in BOOLEAN :
            LET p == pop(Ctx(0), u, withDefault)
            IN IF u \in Present
               THEN /\ Ok(p)
                    /\ p.rkind = "msg"
                    /\ p.rtext = msgs[selected][u].text
                    /\ u \notin Range(search(Then(p), "ALL").rlist)
               ELSE IF withDefault
               THEN Ok(p) /\ p.rkind = "default"
               ELSE p.exc = "KeyError"

-----------------------------------------------------------------------------
(* C11 *)

\* The UIDs of the selected folder that are not flagged \Deleted.
Undeleted ==
    IF Live THEN {u \in Present : Deleted \notin msgs[selected][u].flags}
    ELSE {}

\* The trash folder, when one is set, is another folder than the source and
\* exists on the server.
TrashUsable ==
    \/ trash = NoTrash
    \/ trash.kind = "str" /\ trash.name # name /\ trash.name \in exists

\* C11 as stated, with the requests answered OK: popitem() on a folder that
\* holds no message raises KeyError; on any other folder it returns
\* (u, message of u), where u is the first UID that search('ALL') reports
\* after an expunge, and search('ALL') afterwards is the list of the UIDs
\* that were not flagged \Deleted before, without u.
C11_PopItemAsStated ==
    Live =>
        LET p == popitem(Ctx(0))
            first == search(Then(expunge(Ctx(0))), "ALL").rlist
        IN IF Present = {}
           THEN p.exc = "KeyError"
           ELSE /\ Ok(p)
                /\ p.rkind = "item"
                /\ first # <<>>
                /\ p.rint = first[1]
                /\ p.rtext = msgs[selected][p.rint].text
                /\ search(Then(p), "ALL").rlist
                       = SortedSeq(Undeleted \ {p.rint})

\* C11 amended, with the requests answered OK: popitem() raises KeyError
\* when the folder holds no message that is not flagged \Deleted (an empty
\* folder included), whatever trash is. Otherwise u is the first UID that
\* search('ALL') reports after an expunge, the lowest UID not flagged
\* \Deleted, and
\*   - with trash unset or naming another, existing folder, popitem returns
\*     (u, message of u) and search('ALL') afterwards is the list of the
\*     UIDs that were not flagged \Deleted before, without u;
\*   - with trash naming the source folder itself, popitem returns
\*     (u, message of u) and u stays: search('ALL') afterwards is the list
\*     of the UIDs that were not flagged \Deleted before;
\*   - with trash naming a folder that does not exist, popitem raises
\*     ImapNotOkError after the read, and u stays as well.
C11_PopItemTakesFirst ==
    Live =>
        LET p == popitem(Ctx(0))
            first == search(Then(expunge(Ctx(0))), "ALL").rlist
        IN IF Undeleted = {}
           THEN /\ p.exc = "KeyError"
                /\ first = <<>>
           ELSE /\ first = SortedSeq(Undeleted)
                /\ TrashUsable =>
                      /\ Ok(p)
                      /\ p.rkind = "item"
                      /\ p.rint = first[1]
                      /\ \A v \in Undeleted : p.rint <= v
                      /\ p.rtext = msgs[selected][p.rint].text
                      /\ p.rflags = msgs[selected][p.rint].flags
                      /\ search(Then(p), "ALL").rlist
                             = SortedSeq(Undeleted \ {p.rint})
                /\ trash = Str(name) =>
                      /\ Ok(p)
                      /\ p.rkind = "item"
                      /\ p.rint = first[1]
                      /\ p.rtext = msgs[selected][p.rint].text
                      /\ search(Then(p), "ALL").rlist = SortedSeq(Undeleted)
                /\ (trash.kind = "str" /\ trash.name \notin exists) =>
                      /\ p.exc = "ImapNotOkError"
                      /\ p.cached_uid = first[1]
                      /\ search(Then(p), "ALL").rlist = SortedSeq(Undeleted)

\* popitem has taken message 1 out of the folder {1, 2} and left message 2;
\* the next popitem takes 2 and leaves the folder empty, where popitem
\* raises KeyError.
C11_Witness ==
    /\ selected = "INBOX"
    /\ DOMAIN msgs["INBOX"] = {2}
    /\ cached_uid = 1
    /\ popitem(Ctx(0)).rint = 2
    /\ search(Then(popitem(Ctx(0))), "ALL").rlist = <<>>
    /\ popitem(Then(popitem(Ctx(0)))).exc = "KeyError"

-----------------------------------------------------------------------------
(* C12 *)

\* The flag sets a message handed to add can carry.
AddFlags == {{}, {Seen}, {Deleted}}

\* C12 as stated: when add(message) returns r, r is the last (the maximal)
\* UID of the list a following search('ALL') returns and r is the UID the
\* server gave the appended message, whatever flags the message carries and
\* whatever the folder held.
C12_AddReturnsNewUid ==
    (Live /\ name = selected) =>
        \A flags \in AddFlags :
            LET a == add(Ctx(0), "c", flags)
                q == search(Then(a), "ALL")
            IN Ok(a) =>
                  /\ a.rkind = "int"
                  /\ q.rlist # <<>>
                  /\ a.rint = q.rlist[Len(q.rlist)]
                  /\ a.rint = uidnext[name]
                  /\ a.msgs[name][a.rint].text = "c"

-----------------------------------------------------------------------------
(* C13 *)

\* C13 as stated: keys() returns the UID list, in the same order, that
\* search('ALL') returns at that moment, and iterkeys() iterates over that
\* list.
C13_KeysIsSearchAll ==
    Live =>
        LET q == search(Ctx(0), "ALL")
        IN /\ Ok(q)
           /\ Ok(iterkeys(Ctx(0)))
           /\ iterkeys(Ctx(0)).rlist = q.rlist
           /\ Ok(keys(Ctx(0)))
           /\ keys(Ctx(0)).rlist = q.rlist

-----------------------------------------------------------------------------
(* C14 *)

\* The element a generator yielded in the call that ended in r.
Yielded(r) ==
    IF r.rkind = "item"
    THEN [uid |-> r.rint, text |-> r.rtext, flags |-> r.rflags]
    ELSE [text |-> r.rtext, flags |-> r.rflags]

\* next() on the generator of context s until it raises: the elements
\* yielded, after those of acc, and the context of the call that raised.
RECURSIVE Drain(_, _)
Drain(s, acc) ==
    LET r == resume(s)
    IN IF ~Ok(r) THEN [s |-> r, list |-> acc]
       ELSE Drain(Then(r), Append(acc, Yielded(r)))

\* mailbox[uid] for the UIDs of q, as values and itervalues yield them.
ValuesOf(q) ==
    [k \in DOMAIN q |-> [text |-> msgs[selected][q[k]].text,
                         flags |-> msgs[selected][q[k]].flags]]

\* (uid, mailbox[uid]) for the UIDs of q, as items and iteritems yield them.
ItemsOf(q) ==
    [k \in DOMAIN q |-> [uid |-> q[k],
                         text |-> msgs[selected][q[k]].text,
                         flags |-> msgs[selected][q[k]].flags]]

\* C14 as stated: values() and the generator of itervalues() yield
\* mailbox[uid], items() and the generator of iteritems() yield
\* (uid, mailbox[uid]), for exactly the UIDs of one search('ALL'), in its
\* order and one element per UID, and then the generator is at its end; a
\* message added after the generator took its UIDs is not visited.
C14_ValuesItemsOverSnapshot ==
    Live =>
        LET q == search(Ctx(0), "ALL").rlist
            v == values(Ctx(0))
            i == items(Ctx(0))
            gv == Drain(Then(itervalues(Ctx(0))), <<>>)
            gi == Drain(Then(iteritems(Ctx(0))), <<>>)
            g1 == resume(Then(itervalues(Ctx(0))))
            ga == Drain(Then(add(Then(g1), "c", {})), <<Yielded(g1)>>)
        IN /\ Ok(v)
           /\ v.rlist = ValuesOf(q)
           /\ Ok(i)
           /\ i.rlist = ItemsOf(q)
           /\ gv.list = ValuesOf(q)
           /\ gv.s.exc = "StopIteration"
           /\ gi.list = ItemsOf(q)
           /\ gi.s.exc = "StopIteration"
           /\ q # <<>> =>
                 /\ ga.list = ValuesOf(q)
                 /\ ga.s.exc = "StopIteration"

\* What values, itervalues and iteritems do, with the requests answered OK:
\* values() returns mailbox[uid] for the UIDs of its search('ALL');
\* itervalues() issues no request, the first next() issues the search and
\* reads the first message, every next() reads one message more, and a
\* message added after the first next() is not visited; a UID of the list
\* that was expunged since (trash unset) ends the generator with KeyError.
\* iteritems() issues no request and its first next() raises what keys()
\* raises, after which the generator is at its end.
C14_GeneratorsYieldLazily ==
    Live =>
        LET q == search(Ctx(0), "ALL").rlist
            g0 == itervalues(Ctx(0))
            gv == Drain(Then(g0), <<>>)
            g1 == resume(Then(g0))
            ga == Drain(Then(add(Then(g1), "c", {})), <<Yielded(g1)>>)
            i0 == iteritems(Ctx(0))
            i1 == resume(Then(i0))
        IN /\ values(Ctx(0)).rlist = ValuesOf(q)
           /\ Ok(g0) /\ g0.reqs = <<>>
           /\ SameState([g0 EXCEPT !.gen = gen])
           /\ gv.list = ValuesOf(q)
           /\ gv.s.exc = "StopIteration"
           /\ Head(g1.reqs) = "search"
           /\ q # <<>> =>
                 /\ Ok(g1)
                 /\ g1.reqs = <<"search">> \o
                       (IF cached_uid = q[1] THEN <<>> ELSE <<"RFC822">>)
                       \o <<"FLAGS", "INTERNALDATE", "SIZE">>
                 /\ g1.gen = Gen("values", "running", Tail(q))
                 /\ ga.list = ValuesOf(q)
           /\ (Len(q) >= 2 /\ trash = NoTrash) =>
                 LET x == expunge(Then(discard(Then(g1), q[2])))
                     n == resume(Then(x))
                 IN /\ n.exc = "KeyError"
                    /\ n.reqs = <<"RFC822">>
                    /\ n.gen = Gen("values", "done", <<>>)
                    /\ resume(Then(n)).exc = "StopIteration"
           /\ Ok(i0) /\ i0.reqs = <<>>
           /\ i1.exc = keys(Ctx(0)).exc
           /\ i1.reqs = <<"search">>
           /\ i1.gen.phase = "done"
           /\ resume(Then(i1)).exc = "StopIteration"
           /\ resume(Then(i1)).reqs = <<>>

-----------------------------------------------------------------------------
(* C15 *)

\* The server side of context d is that of the state but for the flags of
\* u in the selected folder, which are G.
OnlyFlagsOf(d, u, G) ==
    /\ d.msgs = [msgs EXCEPT ![selected][u].flags = G]
    /\ SameState([d EXCEPT !.msgs = msgs])

\* C15: for a UID u of the folder with flag set F and requests answered OK,
\* get_imapflags(u) returns F (empty when u has no flag); after
\* add_imapflag(u, f) it returns F \cup {f}, after remove_imapflag(u, f) it
\* returns F \ {f}, add followed by remove of a flag not in F gives F again,
\* and after set_imapflags(u, G) it returns G; each of them leaves the flags
\* of every other UID and the rest of the state as they were.
C15_FlagsAreSetOperations ==
    Live =>
        \A u \in Present :
            LET F == msgs[selected][u].flags
            IN /\ Ok(get_imapflags(Ctx(0), u))
               /\ get_imapflags(Ctx(0), u).rflags = F
               /\ SameState(get_imapflags(Ctx(0), u))
               /\ \A f \in FlagNames :
                      LET a == add_imapflag(Ctx(0), u, <<f>>)
                          r == remove_imapflag(Ctx(0), u, <<f>>)
                          ar == remove_imapflag(Then(a), u, <<f>>)
                      IN /\ Ok(a) /\ OnlyFlagsOf(a, u, F \cup {f})
                         /\ get_imapflags(Then(a), u).rflags = F \cup {f}
                         /\ Ok(r) /\ OnlyFlagsOf(r, u, F \ {f})
                         /\ get_imapflags(Then(r), u).rflags = F \ {f}
                         /\ f \notin F =>
                                get_imapflags(Then(ar), u).rflags = F
               /\ \A G \in SUBSET FlagNames :
                      LET t == set_imapflags(Ctx(0), u, G)
                      IN /\ Ok(t) /\ OnlyFlagsOf(t, u, G)
                         /\ get_imapflags(Then(t), u).rflags = G

\* Flag operations have run: message 1, which had no flag, carries \Seen,
\* and message 2, which carried \Seen, has no flag; set_imapflags on message
\* 1 replaces its flag.
C15_Witness ==
    /\ selected = "INBOX"
    /\ {1, 2} \subseteq Present
    /\ msgs["INBOX"][1].flags = {Seen}
    /\ msgs["INBOX"][2].flags = {}
    /\ get_imapflags(Ctx(0), 2).rflags = {}
    /\ get_imapflags(Then(set_imapflags(Ctx(0), 1, {Deleted})), 1).rflags
           = {Deleted}

-----------------------------------------------------------------------------
(* C16 *)

\* The first n elements of the sequence q, as a set.
Firsts(q, n) == {q[i] : i \in 1..n}

\* C16: add_imapflag(u, f1..fn) and remove_imapflag(u, f1..fn) on a UID u
\* of the folder issue one store request per flag, in argument order; when
\* the k-th request is answered NO, ImapNotOkError naming fk is raised, the
\* k requests issued are all there are, and the flags of u are changed by
\* f1..f(k-1) and by no other; with every answer OK all n are applied.
C16_OneStorePerFlag ==
    Live =>
        \A u \in Present : \A flags \in FlagArgs :
            \A fail \in 0..Len(flags) :
                LET F == msgs[selected][u].flags
                    n == IF fail = 0 THEN Len(flags) ELSE fail
                    a == add_imapflag(Ctx(fail), u, flags)
                    r == remove_imapflag(Ctx(fail), u, flags)
                IN /\ a.reqs = [i \in 1..n |-> "store"]
                   /\ r.reqs = [i \in 1..n |-> "store"]
                   /\ IF fail = 0
                      THEN /\ Ok(a) /\ Ok(r)
                           /\ OnlyFlagsOf(a, u, F \cup Range(flags))
                           /\ OnlyFlagsOf(r, u, F \ Range(flags))
                      ELSE /\ a.exc = "ImapNotOkError" /\ a.earg = flags[fail]
                           /\ r.exc = "ImapNotOkError" /\ r.earg = flags[fail]
                           /\ a.nos = {fail} /\ r.nos = {fail}
                           /\ OnlyFlagsOf(a, u, F \cup Firsts(flags, fail - 1))
                           /\ OnlyFlagsOf(r, u, F \ Firsts(flags, fail - 1))

\* Message 1 carries \Seen and not \Deleted, as add_imapflag(1, \Seen,
\* \Deleted) leaves it when the second request is answered NO; a
\* remove_imapflag(1, \Seen, \Deleted) whose second request is answered NO
\* has removed \Seen and names \Deleted.
C16_Witness ==
    /\ selected = "INBOX"
    /\ 1 \in Present
    /\ msgs["INBOX"][1].flags = {Seen}
    /\ add_imapflag(Ctx(2), 1, <<Deleted, Seen>>).earg = Seen
    /\ remove_imapflag(Ctx(2), 1, <<Seen, Deleted>>).earg = Deleted
    /\ remove_imapflag(Ctx(2), 1, <<Seen, Deleted>>).msgs["INBOX"][1].flags = {}

-----------------------------------------------------------------------------
(* C17 *)

\* The requests of one discard for each element of uids.
RECURSIVE DiscardReqs(_)
DiscardReqs(uids) ==
    IF uids = <<>> THEN <<>>
    ELSE (IF trash = NoTrash THEN <<"store">> ELSE <<"copy", "store">>)
         \o DiscardReqs(Tail(uids))

\* C17: with trash unset or naming a folder other than the source, and the
\* requests answered OK, clear() searches UNDELETED, runs discard once for
\* each UID of the answer, in its order, and then expunges once. It returns
\* unless a discard fails (a trash folder that does not exist); when it
\* returns, search('ALL') is empty, and with a trash folder set the trash
\* folder has gained one copy of each message that was not flagged \Deleted
\* before, and nothing else.
C17_ClearDiscardsThenExpunges ==
    (Live /\ TrashElsewhere) =>
        LET c == clear(Ctx(0))
            U == SortedSeq(Undeleted)
        IN /\ Ok(c) <=> (U = <<>> \/ TrashUsable)
           /\ Ok(c) =>
                 /\ c.reqs = <<"search">> \o DiscardReqs(U) \o <<"expunge">>
                 /\ search(Then(c), "ALL").rlist = <<>>
                 /\ c.msgs[selected] = << >>
                 /\ trash # NoTrash =>
                        /\ Cardinality(DOMAIN c.msgs[trash.name]
                                         \ DOMAIN msgs[trash.name]) = Len(U)
                        /\ Gained(Ctx(0), c, trash.name)
                               = {msgs[selected][u] : u \in Undeleted}
                 /\ trash = NoTrash =>
                        \A f \in FolderNames \ {selected} :
                            c.msgs[f] = msgs[f]

\* clear has run with the trash folder set on a folder that held message 2
\* flagged \Deleted and message 1 not: the folder is empty, the trash folder
\* holds the copy of message 1 only, and no message was read.
C17_Witness ==
    /\ selected = "INBOX"
    /\ trash = Str("Trash")
    /\ msgs["INBOX"] = << >>
    /\ uidnext["INBOX"] = 3
    /\ {msgs["Trash"][w].text : w \in DOMAIN msgs["Trash"]} = {"a"}
    /\ cached_uid = NoUid
    /\ clear(Ctx(0)).reqs = <<"search", "expunge">>

-----------------------------------------------------------------------------
(* C18 *)

\* C18: mailbox[uid] = message and update(arg) raise NotSupportedError for
\* every uid (in the folder or not), message and arg; they issue no request
\* and leave the folders, the flags, self.name and the cache slot as they
\* were.
C18_SetItemUnsupported ==
    /\ \A uid \in Uids : \A message \in Texts :
           LET r == setitem(Ctx(0), uid, message)
           IN /\ r.exc = "NotSupportedError"
              /\ r.reqs = <<>>
              /\ SameState(r)
    /\ \A arg \in UpdateArgs :
           LET r == update(Ctx(0), arg)
           IN /\ r.exc = "NotSupportedError"
              /\ r.reqs = <<>>
              /\ SameState(r)

\* The folder holds message 2 and no longer message 1, the cache slot holds
\* a message, and an assignment to either UID raises and has changed
\* nothing.
C18_Witness ==
    /\ selected = "INBOX"
    /\ 2 \in Present
    /\ 1 \notin Present
    /\ cached_uid = 2
    /\ setitem(Ctx(0), 1, "c").exc = "NotSupportedError"
    /\ setitem(Ctx(0), 2, "c").exc = "NotSupportedError"
    /\ setitem(Ctx(0), 2, "c").msgs = msgs
    /\ setitem(Ctx(0), 2, "c").cached_uid = 2

-----------------------------------------------------------------------------
(* C19 *)

\* The call that ended in context r raised ImapNotOkError if one of its
\* requests was answered with a status other than OK.
NonOkRaised(r) == (r.nos # {}) => (r.exc = "ImapNotOkError")

\* The requests of the methods that read, flag, copy and append: a NO at
\* any position makes the method raise ImapNotOkError.
C19_RequestsRaise ==
    \A fail \in 1..4 :
        /\ NonOkRaised(search(Ctx(fail), "ALL"))
        /\ NonOkRaised(add(Ctx(fail), "c", {}))
        /\ \A u \in Uids :
               /\ NonOkRaised(get_string(Ctx(fail), u))
               /\ NonOkRaised(getitem(Ctx(fail), u))
               /\ NonOkRaised(get_imapflags(Ctx(fail), u))
               /\ NonOkRaised(has_key(Ctx(fail), u))
               /\ \A flags \in FlagArgs :
                      /\ NonOkRaised(add_imapflag(Ctx(fail), u, flags))
                      /\ NonOkRaised(remove_imapflag(Ctx(fail), u, flags))
               /\ NonOkRaised(set_imapflags(Ctx(fail), u, {Seen}))
               /\ \A tgt \in Targets : NonOkRaised(copy(Ctx(fail), u, tgt))

\* The methods that expunge: expunge, flush, clear, pop, popitem, switch and
\* close raise ImapNotOkError when a request of theirs, the expunge
\* included, is answered NO.
C19_ExpungeRaises ==
    \A fail \in 1..8 :
        /\ NonOkRaised(expunge(Ctx(fail)))
        /\ NonOkRaised(flush(Ctx(fail)))
        /\ NonOkRaised(clear(Ctx(fail)))
        /\ NonOkRaised(popitem(Ctx(fail)))
        /\ NonOkRaised(close(Ctx(fail)))
        /\ \A u \in Uids : NonOkRaised(pop(Ctx(fail), u, FALSE))
        /\ \A f \in FolderNames : NonOkRaised(switch(Ctx(fail), f, FALSE))

\* C19 as stated: every request whose status is not OK makes the calling
\* operation raise ImapNotOkError: search, fetch, store, copy and append
\* requests, and expunge(), flush, clear, pop, popitem, switch and close.
C19_NonOkAlwaysRaises == C19_RequestsRaise /\ C19_ExpungeRaises

-----------------------------------------------------------------------------
(* C20 *)

\* C20 as stated: search(criteria) raises ImapNotOkError for every status
\* other than OK, whatever the response data holds (a None first record or
\* no record included), raises another, parse error when the status is OK
\* and a token of the response is no decimal integer, and returns no
\* partial UID list in either case.
C20_SearchErrors ==
    Live =>
        \A criteria \in SearchKeys : \A resp \in Shapes :
            /\ LET r == search(CtxShape(1, resp), criteria)
               IN /\ r.exc = "ImapNotOkError"
                  /\ r.earg # "unparsable"
                  /\ r.rlist = <<>>
            /\ resp = "junk" =>
                   LET r == search(CtxShape(0, resp), criteria)
                   IN /\ r.exc \notin {"", "ImapNotOkError"}
                      /\ r.rlist = <<>>

\* What the code does: a status other than OK gives ImapNotOkError when the
\* first record is a text, AttributeError when it is None and IndexError when
\* there is none; a token that is no number under status OK gives
\* ImapNotOkError too, with another message.
C20_SearchErrorsOfCode ==
    Live =>
        \A criteria \in SearchKeys :
            /\ search(CtxShape(1, "list"), criteria).exc = "ImapNotOkError"
            /\ search(CtxShape(1, "junk"), criteria).exc = "ImapNotOkError"
            /\ search(CtxShape(1, "None"), criteria).exc = "AttributeError"
            /\ search(CtxShape(1, "absent"), criteria).exc = "IndexError"
            /\ search(CtxShape(0, "junk"), criteria).exc = "ImapNotOkError"
            /\ search(CtxShape(0, "junk"), criteria).earg = "unparsable"
            /\ search(CtxShape(0, "junk"), criteria).rlist = <<>>

-----------------------------------------------------------------------------
(* C21 *)

\* C21: switch(name, create) on a mailbox with a folder selected issues the
\* expunge of the current folder first and selects name after it, so the
\* \Deleted messages of the old folder are expunged and those of the new one
\* are not; a missing folder is created when create is true, and switch
\* returns exactly when the folder exists or create is true. When switch
\* returns, self.name is name, name is the folder selected on the session and
\* the cache slot is empty: a raw read of the UID that was cached from the
\* old folder issues one RFC822 fetch, answered from the new folder.
C21_SwitchFlushesThenSelects ==
    Live =>
        \A f \in FolderNames : \A create \in BOOLEAN :
            \A fail \in Fails(switch(Ctx(0), f, create).reqs) :
                LET w == switch(Ctx(fail), f, create)
                    e == expunge(Ctx(fail))
                IN /\ w.reqs = <<"expunge">>
                   /\ Ok(w) <=> (f \in exists \/ create)
                   /\ Ok(w) =>
                         /\ w.msgs = e.msgs
                         /\ w.exists = exists \cup {f}
                         /\ w.name = f
                         /\ w.selected = f
                         /\ w.cached_uid = NoUid
                         /\ w.cached_text = None
                         /\ \A k \in RawKinds :
                              cached_uid # NoUid =>
                                LET r == RawRead(Then(w), k, cached_uid)
                                IN /\ Count(r.reqs, "RFC822") = 1
                                   /\ Head(r.reqs) = "RFC822"
                                   /\ IF cached_uid \in DOMAIN w.msgs[f]
                                      THEN /\ Ok(r)
                                           /\ r.rtext =
                                                w.msgs[f][cached_uid].text
                                      ELSE r.exc = "KeyError"

\* After a switch to Trash and a read of its message 1, the slot holds the
\* text "b" for UID 1; a switch back to INBOX empties the slot, and the read
\* of UID 1 is fetched from INBOX, where it is the text "a".
C21_Witness ==
    /\ selected = "Trash"
    /\ name = "Trash"
    /\ cached_uid = 1
    /\ cached_text = "b"
    /\ 1 \in DOMAIN msgs["INBOX"]
    /\ Ok(switch(Ctx(0), "INBOX", FALSE))
    /\ switch(Ctx(0), "INBOX", FALSE).selected = "INBOX"
    /\ switch(Ctx(0), "INBOX", FALSE).cached_uid = NoUid
    /\ get_string(Then(switch(Ctx(0), "INBOX", FALSE)), 1).reqs = <<"RFC822">>
    /\ get_string(Then(switch(Ctx(0), "INBOX", FALSE)), 1).rtext = "a"

-----------------------------------------------------------------------------
(* C22 *)

\* C22: reconnect() on a mailbox whose folder self.name exists returns, both
\* when the first select succeeds and when it fails and the second attempt
\* is made; after it has returned, the session has reconnected and logged
\* in, self.name is the folder selected on it and the cache slot is empty.
C22_ReconnectRestores ==
    \A broken \in 0..1 :
        LET r == reconnect(Ctx(0), broken)
        IN /\ name \in exists => Ok(r)
           /\ Ok(r) =>
                 /\ r.reqs \in {<<"reconnect", "login">>,
                                <<"reconnect", "login", "reconnect", "login">>}
                 /\ r.selected = name
                 /\ r.name = name
                 /\ r.cached_uid = NoUid
                 /\ r.cached_text = None

\* What reconnect() does: it returns exactly when the folder self.name
\* exists and at most the first select fails, with self.name selected on a
\* session that has logged in again (twice when the first select failed),
\* and leaves the cache slot as it was; when the folder self.name does not
\* exist it raises NameError and no folder is selected.
C22_ReconnectKeepsCache ==
    \A broken \in Breaks :
        LET r == reconnect(Ctx(0), broken)
        IN /\ Ok(r) <=> (name \in exists /\ broken <= 1)
           /\ r.reqs = IF broken = 0 /\ name \in exists
                       THEN <<"reconnect", "login">>
                       ELSE <<"reconnect", "login", "reconnect", "login">>
           /\ r.selected = IF Ok(r) THEN name ELSE NoFolder
           /\ SameState([r EXCEPT !.selected = selected])
           /\ (name \notin exists /\ broken <= 1) => r.exc = "NameError"
           /\ broken = 2 => r.exc = "abort"

-----------------------------------------------------------------------------
(* C23 *)

\* The slot is empty in both fields or filled in both.
C23_SlotPaired ==
    \/ cached_uid = NoUid /\ cached_text = None
    \/ cached_uid \in Uids /\ cached_text \in Texts

\* A raw read of u, with a NO at any request or none: when it raises in its
\* RFC822 fetch (non-OK status, or the UID absent from the folder) the slot
\* is as it was before the call; otherwise the slot is as before, or holds u
\* with the text the RFC822 fetch of this call returned for u.
C23_FailedReadKeepsSlot ==
    \A u \in Uids : \A k \in RawKinds :
        \A fail \in Fails(RawRead(Ctx(0), k, u).reqs) :
            LET r == RawRead(Ctx(fail), k, u)
                kept == /\ r.cached_uid = cached_uid
                        /\ r.cached_text = cached_text
            IN /\ (~Ok(r) /\ Range(r.reqs) \subseteq {"RFC822"}) => kept
               /\ \/ kept
                  \/ /\ Head(r.reqs) = "RFC822"
                     /\ 1 \notin r.nos
                     /\ u \in Present
                     /\ r.cached_uid = u
                     /\ r.cached_text = msgs[selected][u].text

\* A step that changes the slot empties it, or fills it with a UID of the
\* selected folder and the text of that message.
C23_SlotStep ==
    <<cached_uid, cached_text>>' # <<cached_uid, cached_text>> =>
        \/ cached_uid' = NoUid /\ cached_text' = None
        \/ /\ cached_uid' \in Present
           /\ cached_text' = msgs[selected][cached_uid'].text

\* C23: in every reachable state the cache slot is empty (_cached_uid and
\* _cached_text both None) or holds one UID with the text the last
\* successful RFC822 fetch of that UID returned: every step that changes the
\* slot empties it or stores a UID of the selected folder with its text. A
\* raw read that fails in its fetch (non-OK status, or the UID absent)
\* leaves the slot as it was before the call.
C23_CacheSlot ==
    /\ [](C23_SlotPaired /\ C23_FailedReadKeepsSlot)
    /\ [][C23_SlotStep]_vars

\* The slot holds message 1; a read of the absent UID 3 raises KeyError and
\* a read of message 2 answered NO raises ImapNotOkError, and both leave the
\* slot with message 1.
C23_Witness ==
    /\ selected = "INBOX"
    /\ cached_uid = 1
    /\ cached_text = "a"
    /\ 2 \in Present
    /\ 3 \notin Present
    /\ get_string(Ctx(0), 3).exc = "KeyError"
    /\ get_string(Ctx(0), 3).cached_uid = 1
    /\ get_string(Ctx(1), 2).exc = "ImapNotOkError"
    /\ get_string(Ctx(1), 2).cached_uid = 1
    /\ get_string(Ctx(1), 2).cached_text = "a"

-----------------------------------------------------------------------------
(* C24 *)

FlagOps == {"add_imapflag", "remove_imapflag", "set_imapflags"}

\* A flag change on u through the mailbox; set_imapflags takes the flags as
\* one collection.
FlagOp(s, op, u, flags) ==
    CASE op = "add_imapflag" -> add_imapflag(s, u, flags)
      [] op = "remove_imapflag" -> remove_imapflag(s, u, flags)
      [] OTHER -> set_imapflags(s, u, Range(flags))

\* The flags of a message that had the flags old, after the change.
FlagsAfter(old, op, flags) ==
    CASE op = "add_imapflag" -> old \cup Range(flags)
      [] op = "remove_imapflag" -> old \ Range(flags)
      [] OTHER -> Range(flags)

ReadKinds == {"get_message", "get_header"}

ReadMessage(s, kind, u) ==
    IF kind = "get_message" THEN get_message(s, u) ELSE get_header(s, u)

\* C24: with the requests answered OK, get_message(u) and get_header(u) of a
\* message of the folder fetch flags, internal date and size in every call,
\* also when get_message takes the text from the cache slot. Between two
\* reads of u, a flag change through add_imapflag, remove_imapflag or
\* set_imapflags shows in the flags of the second result; the first result
\* keeps the flags the message had when it was read.
C24_FlagsReadEveryCall ==
    Live =>
        \A u \in Present : \A kind \in ReadKinds :
            \A op \in FlagOps : \A flags \in FlagArgs \cup {<<>>} :
                LET old == msgs[selected][u].flags
                    g1 == ReadMessage(Ctx(0), kind, u)
                    c == FlagOp(Then(g1), op, u, flags)
                    g2 == ReadMessage(Then(c), kind, u)
                IN /\ Ok(g1) /\ Ok(c) /\ Ok(g2)
                   /\ g1.rflags = old
                   /\ c.msgs[selected][u].flags = FlagsAfter(old, op, flags)
                   /\ g2.rflags = FlagsAfter(old, op, flags)
                   /\ \A item \in {"FLAGS", "INTERNALDATE", "SIZE"} :
                        /\ Count(g1.reqs, item) = 1
                        /\ Count(g2.reqs, item) = 1
                   /\ kind = "get_message" =>
                        /\ g2.reqs = <<"FLAGS", "INTERNALDATE", "SIZE">>
                        /\ g2.rtext = g1.rtext
                        /\ g2.cached_uid = u

\* Message 1, read into the slot, has been given both flags since Init: a
\* get_message takes its text from the slot and its flags from the session.
C24_Witness ==
    /\ selected = "INBOX"
    /\ cached_uid = 1
    /\ 1 \in Present
    /\ msgs["INBOX"][1].flags = {Deleted, Seen}
    /\ get_message(Ctx(0), 1).reqs = <<"FLAGS", "INTERNALDATE", "SIZE">>
    /\ get_message(Ctx(0), 1).rflags = {Deleted, Seen}
    /\ get_header(Ctx(0), 1).rflags = {Deleted, Seen}

-----------------------------------------------------------------------------
(* C25 *)

HeaderReqs == <<"HEADER", "FLAGS", "INTERNALDATE", "SIZE">>

\* C25: get_header(v) issues its own header fetch as its first request and
\* no RFC822 fetch, also when v is the UID in the cache slot, and leaves the
\* slot as it is, whether it returns or raises. So a raw read of a message
\* u of the folder, then get_header(v) for any v, then a raw read of u issue
\* one RFC822 fetch in all (none when the slot held u before), and the
\* second raw read is served from the slot.
C25_HeaderBypassesCache ==
    Live =>
        \A u \in Present : \A v \in Uids :
            \A k1 \in RawKinds, k3 \in RawKinds : \A fail \in 0..Len(HeaderReqs) :
                LET r1 == RawRead(Ctx(0), k1, u)
                    h == get_header([Then(r1) EXCEPT !.fail = fail], v)
                    r3 == RawRead(Then(h), k3, u)
                IN /\ Ok(r1) /\ Ok(r3)
                   /\ Head(h.reqs) = "HEADER"
                   /\ Count(h.reqs, "RFC822") = 0
                   /\ h.cached_uid = u
                   /\ h.cached_text = r1.rtext
                   /\ (fail = 0 /\ v \in Present) =>
                        /\ Ok(h)
                        /\ h.reqs = HeaderReqs
                        /\ h.rtext = Header(msgs[selected][v].text)
                   /\ Count(r1.reqs \o h.reqs \o r3.reqs, "RFC822")
                        = IF cached_uid = u THEN 0 ELSE 1
                   /\ Count(r3.reqs, "RFC822") = 0
                   /\ r3.rtext = r1.rtext

\* The slot holds message 1: get_header of message 2 and of message 1 issue
\* their header fetch and leave the slot, and the read of message 1 that
\* follows issues no request.
C25_Witness ==
    /\ selected = "INBOX"
    /\ cached_uid = 1
    /\ cached_text = "a"
    /\ 2 \in Present
    /\ get_header(Ctx(0), 2).reqs = HeaderReqs
    /\ get_header(Ctx(0), 2).rtext = Header("b")
    /\ get_header(Ctx(0), 2).cached_uid = 1
    /\ get_header(Ctx(0), 1).reqs = HeaderReqs
    /\ get_string(Then(get_header(Ctx(0), 2)), 1).reqs = <<>>

-----------------------------------------------------------------------------
(* C26 *)

\* C26: on a mailbox whose self.name is the selected folder, after
\* switch(name, create) has returned or raised, self.name is the folder
\* selected on the session and a non-empty cache slot holds a message of
\* that folder (it was filled from the folder that was self.name before the
\* call); a switch that raises NoSuchMailboxError (create false) or
\* TypeError (name no string) leaves self.name and the cache slot as they
\* were before the call.
C26_NameIsSelected ==
    (Live /\ name = selected) =>
        \A f \in FolderNames \cup {NonStr} : \A create \in BOOLEAN :
            LET w == switch(Ctx(0), f, create)
            IN /\ w.name = w.selected
               /\ w.cached_uid # NoUid => w.name = name
               /\ w.exc \in {"NoSuchMailboxError", "TypeError"} =>
                     /\ w.name = name
                     /\ w.cached_uid = cached_uid
                     /\ w.cached_text = cached_text

\* What switch does when it raises: with a name that is no string it raises
\* TypeError after the flush and leaves self.name, the selected folder and
\* the cache slot as they were; with the name of a missing folder and create
\* false it raises NoSuchMailboxError after self.name has been assigned, so
\* self.name is the missing folder, no folder is selected and the slot is
\* as it was. The selected folder is self.name or none in every state, and
\* on a mailbox with no folder selected every switch raises in its flush.
C26_FailedSwitchRenames ==
    /\ selected \in {name, NoFolder}
    /\ \A f \in FolderNames \cup {NonStr} : \A create \in BOOLEAN :
           LET w == switch(Ctx(0), f, create)
           IN IF ~Live
              THEN w.exc = "error" /\ w.reqs = <<>> /\ SameState(w)
              ELSE IF f = NonStr
              THEN /\ w.exc = "TypeError"
                   /\ SameState([w EXCEPT !.msgs = msgs])
                   /\ w.msgs = expunge(Ctx(0)).msgs
              ELSE IF f \in exists \/ create
              THEN Ok(w) /\ w.name = f /\ w.selected = f
              ELSE /\ w.exc = "NoSuchMailboxError"
                   /\ w.name = f
                   /\ w.selected = NoFolder
                   /\ w.cached_uid = cached_uid
                   /\ w.cached_text = cached_text

-----------------------------------------------------------------------------
(* C27 *)

\* C27: the foreign target of a copy is not left locked: it is unlocked in
\* every reachable state, and after copy(uid, target) with a foreign
\* mailbox.Mailbox target has returned or raised (the UID absent, a fetch
\* answered NO), whatever the UID and the request that fails.
C27_ForeignCopyUnlocks ==
    /\ ~locked
    /\ \A u \in Uids :
           \A fail \in Fails(copy(Ctx(0), u, Foreign).reqs) :
               ~copy(Ctx(fail), u, Foreign).locked

\* What copy does with a mailbox it downloads to. A foreign target: copy
\* raises exactly what mailbox[uid] raises and the target has then received
\* nothing and stays locked, else the target receives the text and is
\* unlocked. An ImapMailbox on another server: its lock and unlock do
\* nothing, so a foreign mailbox left locked before stays as it was; when
\* mailbox[uid] raises, copy raises the same and the other server is as
\* before, else the requests of the target's add follow those of
\* mailbox[uid].
C27_LockLeftOnRaise ==
    \A u \in Uids : \A tgt \in {Foreign} \cup Elsewhere :
        \A fail \in Fails(copy(Ctx(0), u, tgt).reqs) :
            LET c == copy(Ctx(fail), u, tgt)
                m == getitem(Ctx(fail), u)
            IN IF tgt = Foreign
               THEN /\ c.exc = m.exc
                    /\ c.reqs = m.reqs
                    /\ c.locked = ~Ok(m)
                    /\ c.sink = IF Ok(m) THEN sink \cup {m.rtext} ELSE sink
                    /\ c.remote = remote
               ELSE /\ c.locked = locked
                    /\ c.sink = sink
                    /\ ~Ok(m) =>
                          c.exc = m.exc /\ c.reqs = m.reqs /\ c.remote = remote
                    /\ Ok(m) =>
                          /\ Len(c.reqs) > Len(m.reqs)
                          /\ SubSeq(c.reqs, 1, Len(m.reqs) + 1)
                                 = m.reqs \o <<"append">>
                          /\ c.exc \in {"", "ImapNotOkError", "IndexError"}

-----------------------------------------------------------------------------
(* C28 *)

\* The messages folder f holds in context d that it did not hold in the
\* state.
NewIn(d, f) == DOMAIN d.msgs[f] \ DOMAIN msgs[f]

\* C28: discard(uid) and remove(uid) on a UID of the folder, called twice in
\* a row with no expunge between and both calls returning, leave every
\* folder as one call leaves it; with a trash folder other than the source
\* configured, the trash folder has gained exactly one message.
C28_DiscardIdempotent ==
    Live =>
        \A u \in Present :
            LET d1 == discard(Ctx(0), u)
                d2 == discard(Then(d1), u)
                r1 == remove(Ctx(0), u)
                r2 == remove(Then(r1), u)
            IN /\ (Ok(d1) /\ Ok(d2)) =>
                     /\ d2.msgs = d1.msgs
                     /\ (trash.kind = "str" /\ trash.name # name) =>
                            Cardinality(NewIn(d2, trash.name)) = 1
               /\ (Ok(r1) /\ Ok(r2)) =>
                     /\ r2.msgs = r1.msgs
                     /\ (trash.kind = "str" /\ trash.name # name) =>
                            Cardinality(NewIn(r2, trash.name)) = 1

\* What two discards (or removes) in a row do: with trash unset, or naming
\* the source folder, the second call changes nothing; with a trash folder
\* other than the source, which exists, the second call copies the message
\* again, so the trash folder gains two messages with the text of uid, and
\* the source is as after one call.
C28_SecondDiscardCopiesAgain ==
    Live =>
        \A u \in Present :
            LET d1 == discard(Ctx(0), u)
                d2 == discard(Then(d1), u)
                r2 == remove(Then(remove(Ctx(0), u)), u)
            IN IF trash.kind = "str" /\ trash.name # name
               THEN (trash.name \in exists) =>
                       /\ Ok(d1) /\ Ok(d2) /\ Ok(r2)
                       /\ d2.reqs = <<"copy", "store">>
                       /\ d2.msgs[selected] = d1.msgs[selected]
                       /\ Cardinality(NewIn(d1, trash.name)) = 1
                       /\ Cardinality(NewIn(d2, trash.name)) = 2
                       /\ \A w \in NewIn(d2, trash.name) :
                              d2.msgs[trash.name][w].text
                                  = msgs[selected][u].text
                       /\ r2.msgs = d2.msgs
               ELSE /\ Ok(d1) /\ Ok(d2) /\ Ok(r2)
                    /\ d2.msgs = d1.msgs
                    /\ r2.msgs = d1.msgs

====
